---- MODULE Spec2Model ----
(***************************************************************************)
(* A model of the landing page's UI controllers (src/app.js).              *)
(*                                                                         *)
(* src/app.js holds two copies of the controller set.  The Carousel class  *)
(* is the same text in both copies (lines 350-518 and 1360-1528) and is    *)
(* modelled once.  FormValidator differs between the copies and is         *)
(* modelled with a variant number (1: lines 524-760, 2: lines 1534-1755).  *)
(*                                                                         *)
(* ScrollAnimations, StatisticsCounter and LazyLoader behave the same in    *)
(* both copies (lines 234-344 and 766-849; 1244-1354 and 1761-1840) and    *)
(* are modelled once.                                                      *)
(*                                                                         *)
(* Time is counted in ticks; an autoplay delay is DelayTicks ticks and the *)
(* delay of a status message's removal is StatusTicks ticks.               *)
(***************************************************************************)
EXTENDS Integers, Sequences, FiniteSets, TLC

\* ------------------------------------------------------------------------
\* Bounds of the model
\* ------------------------------------------------------------------------
MaxSlides == 3
OutOfRange == 1
MaxX == 2
DelayTicks == 2
MaxShort == 3
MaxInFlight == 2
MaxStatus == 1
StatusTicks == 1
MaxTargets == 2
MaxBatch == 2
MaxElements == 1
MaxInits == 2
MaxModals == 1
MaxDialogs == 2
MaxItems == 3
WaitTicks == 3
LimitTicks == 2
MaxBurst == 2
MaxTarget == 2
MaxDuration == 32
MaxCounterTicks == 130
MaxOffset == 4

\* The period of the counter animation's interval and the duration used when
\* data-duration gives none, in milliseconds.
IntervalMs == 16

DefaultDuration == 2000

\* The scroll offsets above which the header is 'scrolled' and the back-to-top
\* button 'visible', in pixels.
ScrollThreshold == 100

ShowThreshold == 300

\* The swipe threshold of setupTouchEvents, in pixels.
SwipeThreshold == 50

\* Touch X coordinates: a grid that yields deltas below and above the threshold.
XCoords == {30 * k : k \in 0..MaxX}

VARIABLES
    carousel,   \* the Carousel object, its DOM marks and the host's live intervals
    touch,      \* the closure variables of setupTouchEvents
    hovering,   \* the pointer is over the carousel (mouseenter seen, no mouseleave yet)
    gesture,    \* history: start X and last X reported during the current touch gesture
    sinceNav,   \* history: ticks since the latest manual navigation, capped at the delay
    nextHist,   \* history: currentIndex before each of the latest consecutive next() calls
    lastCall    \* history: the latest event (the method it ran, "touchend",
                \* "autoPlayTick" or "event"), its argument and the navigation it made

carVars == <<carousel, touch, hovering, gesture, sinceNav, nextHist, lastCall>>

VARIABLES
    form,         \* a FormValidator, its fields and the error elements of the document
    inputTimer,   \* the fields whose debounced input handler has a timeout pending
    lastValidate, \* history: the latest validateField call and what it returned
    lastSubmit    \* history: the latest submit event or completed request, when it
                  \* is the latest event of the form, and the form before it

formVars == <<form, inputTimer, lastValidate, lastSubmit>>

VARIABLES
    scrollAnimations,   \* the ScrollAnimations object, its observer and its elements
    statisticsCounter,  \* the StatisticsCounter object, its observer and its counters
    lazyLoader          \* the LazyLoader object, its observer and its elements

obsVars == <<scrollAnimations, statisticsCounter, lazyLoader>>

VARIABLES
    app,        \* an App object, the page it starts on and the controllers it made
    destroyed   \* history: Carousel.destroy() has run on the carousel

appVars == <<app, destroyed>>

VARIABLES
    navigation, \* the MobileNavigation object and the marks of its elements
    modal,      \* the ModalHandler object and the marks of its modals
    accordion,  \* an Accordion object and the marks of its items
    page        \* document.body's overflow style, the focused element and the
                \* pending focus timeouts

uiVars == <<navigation, modal, accordion, page>>

VARIABLES
    debounced,  \* a function made by debounce(), its timeouts and its history
    throttled   \* a function made by throttle(), its timeouts and its history

utilVars == <<debounced, throttled>>

VARIABLES
    counter,    \* a [data-counter] element and the animation animateCounter runs on it
    scroller    \* the HeaderScroll and BackToTop objects, the classes of their
                \* elements and the scroll offset of the window

motionVars == <<counter, scroller>>

\* The variables of the App, the menu, the modals, the accordion, the
\* utility functions, the counter animation and the scroll controllers.
restVars == <<appVars, uiVars, utilVars, motionVars>>

vars == <<carVars, formVars, obsVars, restVars>>

\* ------------------------------------------------------------------------
\* Helpers
\* ------------------------------------------------------------------------

\* JavaScript's % on integers: the result takes the sign of the dividend.
JsRem(a, b) == IF a >= 0 THEN a % b ELSE -((-a) % b)

JsAbs(a) == IF a >= 0 THEN a ELSE -a

Min(a, b) == IF a <= b THEN a ELSE b

SetMin(S) == CHOOSE x \in S : \A y \in S : x <= y

SetMax(S) == CHOOSE x \in S : \A y \in S : x >= y

RemoveAt(s, k) == SubSeq(s, 1, k - 1) \o SubSeq(s, k + 1, Len(s))

\* The last k elements of sequence s.
LastN(s, k) == IF Len(s) <= k THEN s ELSE SubSeq(s, Len(s) - k + 1, Len(s))

\* ------------------------------------------------------------------------
\* Carousel
\* ------------------------------------------------------------------------

\* setInterval's return value: a handle that no live interval uses.  (The browser
\* never reuses a handle; the only handle the carousel keeps is overwritten by this
\* one, so reusing the handle of a cleared interval is not observable.)
FreshHandle(c) ==
    CHOOSE h \in 1..(Cardinality(c.intervals) + 1) :
        /\ \A t \in c.intervals : t.id # h
        /\ \A g \in 1..(h - 1) : \E t \in c.intervals : t.id = g

startAutoPlay(c) ==
    IF ~c.isAutoPlay THEN c
    ELSE LET h == FreshHandle(c) IN
         [c EXCEPT !.autoPlayInterval = h,
                   !.intervals = @ \cup {[id |-> h, remaining |-> c.autoPlayDelay]}]

\* pauseAutoPlay without its clearInterval.
pauseAutoPlayNoClear(c) == [c EXCEPT !.isPaused = TRUE]

pauseAutoPlay(c) ==
    [c EXCEPT !.isPaused = TRUE,
              !.intervals = IF c.autoPlayInterval # 0
                            THEN {t \in @ : t.id # c.autoPlayInterval}
                            ELSE @]

resumeAutoPlay(c) ==
    IF c.isAutoPlay /\ c.isPaused
    THEN startAutoPlay([c EXCEPT !.isPaused = FALSE])
    ELSE c

resetAutoPlayNoRestart(c) == c

resetAutoPlay(c) ==
    IF c.isAutoPlay THEN resumeAutoPlay(pauseAutoPlay(c)) ELSE c

updateCarouselKeepActive(c) ==
    [c EXCEPT !.transform = -c.currentIndex * 100,
              !.slideActive = @ \cup {i \in 0..(c.slides - 1) : i = c.currentIndex},
              !.dotActive = IF c.dots
                            THEN @ \cup {i \in 0..(c.slides - 1) : i = c.currentIndex}
                            ELSE @]

\* slideActive / dotActive: the indices whose element carries class 'active'
\* (aria-hidden and aria-current are set from the same comparison).
updateCarousel(c) ==
    [c EXCEPT !.transform = -c.currentIndex * 100,
              !.slideActive = {i \in 0..(c.slides - 1) : i = c.currentIndex},
              !.dotActive = IF c.dots
                            THEN {i \in 0..(c.slides - 1) : i = c.currentIndex}
                            ELSE @]

prevNoWrap(c) ==
    resetAutoPlay(updateCarousel([c EXCEPT !.currentIndex = c.currentIndex - 1]))

prev(c) ==
    resetAutoPlay(updateCarousel(
        [c EXCEPT !.currentIndex = JsRem(c.currentIndex - 1 + c.slides, c.slides)]))

nextNoWrap(c) ==
    resetAutoPlay(updateCarousel([c EXCEPT !.currentIndex = c.currentIndex + 1]))

next(c) ==
    resetAutoPlay(updateCarousel(
        [c EXCEPT !.currentIndex = JsRem(c.currentIndex + 1, c.slides)]))

goToSlide(c, index) ==
    resetAutoPlay(updateCarousel([c EXCEPT !.currentIndex = index]))

\* createDots: one dot per slide, when the element has a .carousel-dots container.
createDots(c) == [c EXCEPT !.dots = c.dotsContainer]

\* bindEvents registers the listeners; the actions below are their handlers.
bindEvents(c) == [c EXCEPT !.listening = TRUE]

\* init without its guard on the track and the slides.
initUnguarded(c) ==
    LET d == updateCarousel(bindEvents(createDots(c))) IN
    IF d.isAutoPlay THEN startAutoPlay(d) ELSE d

\* warned: console.warn('Carousel elements not found') was called.
init(c) ==
    IF ~c.track \/ c.slides = 0 THEN [c EXCEPT !.warned = TRUE]
    ELSE LET d == updateCarousel(bindEvents(createDots(c))) IN
         IF d.isAutoPlay THEN startAutoPlay(d) ELSE d

\* destroy() clears the interval whose handle the carousel holds, and nothing else.
destroy(c) ==
    [c EXCEPT !.intervals = IF c.autoPlayInterval # 0
                            THEN {t \in @ : t.id # c.autoPlayInterval}
                            ELSE @]

\* The constructor: el describes the markup of the .carousel element.
Carousel(el) ==
    init([track |-> el.track, slides |-> el.slides,
          prevButton |-> el.prevButton, nextButton |-> el.nextButton,
          dotsContainer |-> el.dotsContainer,
          currentIndex |-> 0, autoPlayInterval |-> 0,
          autoPlayDelay |-> DelayTicks, isAutoPlay |-> el.autoplay,
          isPaused |-> FALSE,
          dots |-> FALSE, listening |-> FALSE, warned |-> FALSE,
          transform |-> 0, slideActive |-> {}, dotActive |-> {},
          intervals |-> {}])

\* The markups of a .carousel element: with or without a track, 0..MaxSlides slides,
\* with or without data-autoplay, and either all of the optional controls (both
\* buttons and the dots container) or none of them.
CarouselElements ==
    {el \in [track : BOOLEAN, slides : 0..MaxSlides, prevButton : BOOLEAN,
             nextButton : BOOLEAN, dotsContainer : BOOLEAN, autoplay : BOOLEAN] :
        el.prevButton = el.nextButton /\ el.nextButton = el.dotsContainer}

\* What an event that may navigate did: nav names the navigation method called.
Call(op, arg, nav) == [op |-> op, arg |-> arg, nav |-> nav]

CarouselInit ==
    /\ \E el \in CarouselElements : carousel = Carousel(el)
    /\ touch = [startX |-> 0, currentX |-> 0, isDragging |-> FALSE]
    /\ hovering = FALSE
    /\ gesture = [startX |-> 0, lastX |-> 0]
    /\ sinceNav = DelayTicks
    /\ nextHist = <<>>
    /\ lastCall = Call("init", 0, "none")

\* History kept with every navigation made by the user or a caller.
ManualNav(op, arg, nav) ==
    /\ sinceNav' = 0
    /\ lastCall' = Call(op, arg, nav)
    /\ nextHist' = IF nav = "next"
                   THEN LastN(Append(nextHist, carousel.currentIndex), carousel.slides)
                   ELSE <<>>

ClickPrev ==
    /\ carousel.listening /\ carousel.prevButton
    /\ carousel' = prev(carousel)
    /\ ManualNav("prev", 0, "prev")
    /\ UNCHANGED <<touch, hovering, gesture, formVars, obsVars, restVars>>

ClickNext ==
    /\ carousel.listening /\ carousel.nextButton
    /\ carousel' = next(carousel)
    /\ ManualNav("next", 0, "next")
    /\ UNCHANGED <<touch, hovering, gesture, formVars, obsVars, restVars>>

ClickDot ==
    /\ carousel.listening /\ carousel.dots
    /\ \E index \in 0..(carousel.slides - 1) :
        /\ carousel' = goToSlide(carousel, index)
        /\ ManualNav("goToSlide", index, "goToSlide")
    /\ UNCHANGED <<touch, hovering, gesture, formVars, obsVars, restVars>>

\* goToSlide() called directly, as a public method, with any integer.
CallGoToSlide ==
    /\ carousel.listening
    /\ \E index \in (-OutOfRange)..(carousel.slides - 1 + OutOfRange) :
        /\ carousel' = goToSlide(carousel, index)
        /\ ManualNav("goToSlide", index, "goToSlide")
    /\ UNCHANGED <<touch, hovering, gesture, formVars, obsVars, restVars>>

KeyArrowLeft ==
    /\ carousel.listening
    /\ carousel' = prev(carousel)
    /\ ManualNav("prev", 0, "prev")
    /\ UNCHANGED <<touch, hovering, gesture, formVars, obsVars, restVars>>

KeyArrowRight ==
    /\ carousel.listening
    /\ carousel' = next(carousel)
    /\ ManualNav("next", 0, "next")
    /\ UNCHANGED <<touch, hovering, gesture, formVars, obsVars, restVars>>

MouseEnter ==
    /\ carousel.listening /\ carousel.isAutoPlay
    /\ ~hovering
    /\ hovering' = TRUE
    /\ carousel' = pauseAutoPlay(carousel)
    /\ lastCall' = Call("event", 0, "none")
    /\ UNCHANGED <<touch, gesture, sinceNav, nextHist, formVars, obsVars, restVars>>

MouseLeave ==
    /\ carousel.listening /\ carousel.isAutoPlay
    /\ hovering
    /\ hovering' = FALSE
    /\ carousel' = resumeAutoPlay(carousel)
    /\ lastCall' = Call("event", 0, "none")
    /\ UNCHANGED <<touch, gesture, sinceNav, nextHist, formVars, obsVars, restVars>>

TouchStart ==
    /\ carousel.listening
    /\ \E x \in XCoords :
        /\ touch' = [touch EXCEPT !.startX = x, !.isDragging = TRUE]
        /\ gesture' = [startX |-> x, lastX |-> x]
    /\ carousel' = pauseAutoPlay(carousel)
    /\ lastCall' = Call("event", 0, "none")
    /\ UNCHANGED <<hovering, sinceNav, nextHist, formVars, obsVars, restVars>>

TouchMove ==
    /\ carousel.listening
    /\ touch.isDragging
    /\ \E x \in XCoords :
        /\ touch' = [touch EXCEPT !.currentX = x]
        /\ gesture' = [gesture EXCEPT !.lastX = x]
    /\ lastCall' = Call("event", 0, "none")
    /\ UNCHANGED <<carousel, hovering, sinceNav, nextHist, formVars, obsVars, restVars>>

\* The navigation touchend makes for a horizontal difference diff.
swipeAnyDiff(diff) == IF diff > 0 THEN "next" ELSE "prev"

swipe(diff) ==
    IF JsAbs(diff) > SwipeThreshold
    THEN (IF diff > 0 THEN "next" ELSE "prev")
    ELSE "none"

TouchEnd ==
    /\ carousel.listening
    /\ touch.isDragging
    /\ touch' = [touch EXCEPT !.isDragging = FALSE]
    /\ LET nav == swipe(touch.startX - touch.currentX)
           delta == gesture.startX - gesture.lastX
       IN /\ carousel' = resumeAutoPlay(
                            CASE nav = "next" -> next(carousel)
                              [] nav = "prev" -> prev(carousel)
                              [] OTHER -> carousel)
          /\ IF nav = "none"
             THEN /\ lastCall' = Call("touchend", delta, "none")
                  /\ UNCHANGED <<sinceNav, nextHist>>
             ELSE ManualNav("touchend", delta, nav)
    /\ gesture' = [startX |-> 0, lastX |-> 0]
    /\ UNCHANGED <<hovering, formVars, obsVars, restVars>>

\* A due autoplay interval fires: the interval is re-armed and its callback runs next().
AutoPlayTick ==
    /\ \E t \in carousel.intervals :
        /\ t.remaining = 0
        /\ carousel' = next([carousel EXCEPT !.intervals =
                               (@ \ {t}) \cup {[t EXCEPT !.remaining = carousel.autoPlayDelay]}])
    /\ lastCall' = Call("autoPlayTick", 0, "next")
    /\ nextHist' = LastN(Append(nextHist, carousel.currentIndex), carousel.slides)
    /\ UNCHANGED <<touch, hovering, gesture, sinceNav, formVars, obsVars, restVars>>

\* One tick of time passes; a due interval fires before time moves on.
Advance ==
    /\ carousel.listening
    /\ \A t \in carousel.intervals : t.remaining > 0
    /\ carousel.intervals # {} \/ sinceNav < carousel.autoPlayDelay
    /\ carousel' = [carousel EXCEPT !.intervals =
                        {[t EXCEPT !.remaining = @ - 1] : t \in @}]
    /\ sinceNav' = Min(sinceNav + 1, carousel.autoPlayDelay)
    /\ lastCall' = Call("event", 0, "none")
    /\ UNCHANGED <<touch, hovering, gesture, nextHist, formVars, obsVars, restVars>>

\* Carousel.destroy(), called on the carousel directly or by App.destroy().
DestroyCarousel ==
    /\ carousel' = destroy(carousel)
    /\ destroyed' = TRUE
    /\ lastCall' = Call("destroy", 0, "none")
    /\ UNCHANGED <<touch, hovering, gesture, sinceNav, nextHist, app,
                   formVars, obsVars, uiVars, utilVars, motionVars>>

\* ------------------------------------------------------------------------
\* FormValidator: field validation
\* ------------------------------------------------------------------------

\* Field values are strings over four characters: a space, a digit, '@' and '.'.
Alphabet == {" ", "1", "@", "."}

Strings(n) == UNION {[1..k -> Alphabet] : k \in 0..n}

\* Longer values: an e-mail address, the same with a leading space, five digits.
Samples ==
    { <<"1", "@", "1", ".", "1">>,
      <<" ", "1", "@", "1", ".", "1">>,
      <<"1", "1", "1", "1", "1">> }

\* The values a field can hold: every string of up to MaxShort characters and
\* every prefix of a sample, so that each is reached by typing.
Values == Strings(MaxShort) \cup UNION {{SubSeq(t, 1, k) : k \in 0..Len(t)} : t \in Samples}

trimNone(s) == s

\* String.prototype.trim
trim(s) ==
    LET keep == {k \in 1..Len(s) : s[k] # " "}
    IN IF keep = {} THEN <<>> ELSE SubSeq(s, SetMin(keep), SetMax(keep))

NotSpaceNorAt(v, from, to) == \A k \in from..to : v[k] \notin {" ", "@"}

\* validationRules: the types that have a pattern (phone and url are not drawn
\* as inputs), and the pattern's test.
\*   email:  /^[^\s@]+@[^\s@]+\.[^\s@]+$/        number:  /^\d+$/
HasRule(type) == type \in {"email", "number"}

validationRules(type, v) ==
    CASE type = "email" ->
            \E at \in 2..Len(v) : \E dot \in (at + 2)..(Len(v) - 1) :
                /\ v[at] = "@"
                /\ v[dot] = "."
                /\ NotSpaceNorAt(v, 1, at - 1)
                /\ NotSpaceNorAt(v, at + 1, dot - 1)
                /\ NotSpaceNorAt(v, dot + 1, Len(v))
      [] type = "number" -> v # <<>> /\ \A k \in 1..Len(v) : v[k] = "1"

\* Messages: a text and, for the length messages, the number shown in it.
Msg(text, n) == [text |-> text, n |-> n]

NoText == Msg("", 0)

getErrorMessageGeneric(type) == Msg("Invalid input", 0)

getErrorMessage(type) ==
    CASE type = "email" -> Msg("Please enter a valid email address", 0)
      [] type = "number" -> Msg("Please enter a valid number", 0)
      [] OTHER -> Msg("Invalid input", 0)

\* window[customValidator](value) for the two validator functions of the model:
\* "accept" returns true, "reject" returns an error text.
CustomResult(name, v) ==
    IF name = "accept" THEN [ok |-> TRUE, msg |-> NoText]
    ELSE [ok |-> FALSE, msg |-> Msg("Custom error", 0)]

\* The attributes of a field.  minlength and maxlength are {} when the attribute
\* is absent and {n} when it is n; validator is "none" when data-validator is
\* absent or names no function.
FieldConfigs ==
    [required : BOOLEAN, minlength : {{}, {4}}, maxlength : {{}, {2}},
     validate : {"email", "number", "text"},
     validator : {"none", "accept", "reject"}]

\* A field element: its attributes, the key of its error element (variant 1:
\* the id `${id || name}-error`; variant 2: its parent element), its value, its
\* classes and its aria-invalid attribute ("none" when absent).
Field(cfg, key) ==
    [required |-> cfg.required, minlength |-> cfg.minlength,
     maxlength |-> cfg.maxlength, validate |-> cfg.validate,
     validator |-> cfg.validator, key |-> key,
     value |-> <<>>, classes |-> {}, ariaInvalid |-> "none"]

errorElementNotFound(fm, i) == 0

\* The first error element for field i in document order, 0 when there is none
\* (variant 1: document.getElementById(errorId); variant 2:
\* field.parentElement.querySelector('.error-message')).
errorElement(fm, i) ==
    LET found == {k \in 1..Len(fm.errEls) : fm.errEls[k].key = fm.fields[i].key}
    IN IF found = {} THEN 0 ELSE SetMin(found)

\* A new span.error-message, appended for field i and then given its text and
\* (variant 1) its display style.
appendErrorElement(fm, i, text, visible) ==
    [fm EXCEPT !.errEls =
        Append(@, [key |-> fm.fields[i].key, text |-> text, visible |-> visible])]

\* Variant 1: getErrorElement returns the element with the field's error id,
\* creating it when the document has none; the caller sets text and display.
showError1(fm, i, message) ==
    LET marked == [fm EXCEPT !.fields[i].classes = (@ \cup {"error"}) \ {"success"},
                             !.fields[i].ariaInvalid = "true"]
        k == errorElement(marked, i)
    IN IF k # 0
       THEN [marked EXCEPT !.errEls[k].text = message, !.errEls[k].visible = TRUE]
       ELSE appendErrorElement(marked, i, message, TRUE)

showSuccess1(fm, i) ==
    LET marked == [fm EXCEPT !.fields[i].classes = (@ \ {"error"}) \cup {"success"},
                             !.fields[i].ariaInvalid = "false"]
        k == errorElement(marked, i)
    IN IF k # 0
       THEN [marked EXCEPT !.errEls[k].visible = FALSE]
       ELSE appendErrorElement(marked, i, NoText, FALSE)

clearError1(fm, i) ==
    LET marked == [fm EXCEPT !.fields[i].classes = @ \ {"error", "success"},
                             !.fields[i].ariaInvalid = "none"]
        k == errorElement(marked, i)
    IN IF k # 0
       THEN [marked EXCEPT !.errEls[k].visible = FALSE]
       ELSE appendErrorElement(marked, i, NoText, FALSE)

\* Variant 2: the error element lives in the field's parent and is removed
\* rather than hidden.
clearError2(fm, i) ==
    LET k == errorElement(fm, i)
    IN IF k # 0 THEN [fm EXCEPT !.errEls = RemoveAt(@, k)] ELSE fm

showError2(fm, i, message) ==
    LET marked == [fm EXCEPT !.fields[i].classes = (@ \cup {"error"}) \ {"success"},
                             !.fields[i].ariaInvalid = "true"]
        k == errorElement(marked, i)
    IN IF k # 0
       THEN [marked EXCEPT !.errEls[k].text = message]
       ELSE appendErrorElement(marked, i, message, TRUE)

showSuccess2(fm, i) ==
    clearError2([fm EXCEPT !.fields[i].classes = (@ \ {"error"}) \cup {"success"},
                           !.fields[i].ariaInvalid = "false"], i)

showError(fm, i, message) ==
    IF fm.variant = 1 THEN showError1(fm, i, message) ELSE showError2(fm, i, message)

showSuccessUnmarked(fm, i) == fm

showSuccess(fm, i) ==
    IF fm.variant = 1 THEN showSuccess1(fm, i) ELSE showSuccess2(fm, i)

clearError(fm, i) ==
    IF fm.variant = 1 THEN clearError1(fm, i) ELSE clearError2(fm, i)

\* What validateField returns: the document afterwards, the boolean result and
\* whether the custom validator function was called.
Validated(fm, ok, custom) == [form |-> fm, ok |-> ok, custom |-> custom]

validateFieldTypeFirst(fm, i) ==
    LET field == fm.fields[i]
        value == trim(field.value)
        cleared == clearError(fm, i)
    IN IF field.required /\ value = <<>>
       THEN Validated(showError(cleared, i, Msg("This field is required", 0)), FALSE, FALSE)
       ELSE IF value = <<>> /\ ~field.required
       THEN Validated(cleared, TRUE, FALSE)
       ELSE IF HasRule(field.validate) /\ ~validationRules(field.validate, value)
       THEN Validated(showError(cleared, i, getErrorMessage(field.validate)), FALSE, FALSE)
       ELSE IF \E m \in field.minlength : Len(value) < m
       THEN Validated(showError(cleared, i,
                Msg("Minimum n characters required", SetMin(field.minlength))), FALSE, FALSE)
       ELSE IF \E m \in field.maxlength : Len(value) > m
       THEN Validated(showError(cleared, i,
                Msg("Maximum n characters allowed", SetMin(field.maxlength))), FALSE, FALSE)
       ELSE IF field.validator # "none" /\ ~CustomResult(field.validator, value).ok
       THEN Validated(showError(cleared, i, CustomResult(field.validator, value).msg),
                      FALSE, TRUE)
       ELSE Validated(showSuccess(cleared, i), TRUE, field.validator # "none")

validateField(fm, i) ==
    LET field == fm.fields[i]
        value == trim(field.value)
        cleared == clearError(fm, i)
    IN IF field.required /\ value = <<>>
       THEN Validated(showError(cleared, i, Msg("This field is required", 0)), FALSE, FALSE)
       ELSE IF value = <<>> /\ ~field.required
       THEN Validated(cleared, TRUE, FALSE)
       ELSE IF \E m \in field.minlength : Len(value) < m
       THEN Validated(showError(cleared, i,
                Msg("Minimum n characters required", SetMin(field.minlength))), FALSE, FALSE)
       ELSE IF \E m \in field.maxlength : Len(value) > m
       THEN Validated(showError(cleared, i,
                Msg("Maximum n characters allowed", SetMin(field.maxlength))), FALSE, FALSE)
       ELSE IF HasRule(field.validate) /\ ~validationRules(field.validate, value)
       THEN Validated(showError(cleared, i, getErrorMessage(field.validate)), FALSE, FALSE)
       ELSE IF field.validator # "none" /\ ~CustomResult(field.validator, value).ok
       THEN Validated(showError(cleared, i, CustomResult(field.validator, value).msg),
                      FALSE, TRUE)
       ELSE Validated(showSuccess(cleared, i), TRUE, field.validator # "none")

\* History of a validateField call on field i that returned r.
Validation(i, r) == [field |-> i, ok |-> r.ok, custom |-> r.custom]

NoValidation == [field |-> 0, ok |-> TRUE, custom |-> FALSE]

\* ------------------------------------------------------------------------
\* FormValidator: events and submission
\* ------------------------------------------------------------------------

\* new FormValidator(form): the constructor keeps the fields and the submit
\* button and binds the listeners; setupAccessibility creates no element.
\* Besides the object, the record holds the form's part of the document: the
\* error elements, the status elements (first = top of the form), the requests
\* in flight, the focused field (0: none of the fields) and, as `values`, the
\* values the user may give a field.  `action` is the form's action attribute
\* ("" when absent); `freeSubmit` tells that submit events also reach the form
\* without its [type="submit"] button (a button without a type attribute, a
\* caller of requestSubmit()); `uncaught` tells that an error left submitForm.
FormValidator(variant, fields, submitButton, values) ==
    [variant |-> variant, fields |-> fields, submitButton |-> submitButton,
     disabled |-> FALSE, errEls |-> <<>>, statusEls |-> <<>>, requests |-> <<>>,
     focus |-> 0, values |-> values,
     action |-> "/subscribe", freeSubmit |-> FALSE, uncaught |-> FALSE]

FieldIds == 1..Len(form.fields)

\* element.focus() on field i: the field that had the focus gets 'blur', whose
\* listener validates it.  `last` is the validation made, if any.
focusField(fm, i) ==
    IF fm.focus = i THEN [form |-> fm, last |-> NoValidation]
    ELSE IF fm.focus = 0 THEN [form |-> [fm EXCEPT !.focus = i], last |-> NoValidation]
    ELSE LET r == validateField(fm, fm.focus)
         IN [form |-> [r.form EXCEPT !.focus = i], last |-> Validation(fm.focus, r)]

\* validateForm's isValid after field i returned r and the fields after it
\* gave rest: false as soon as one validateField call returned false.
\* `results` holds what validateField returned for each field validated.
isValid(i, r, rest) ==
    [form |-> rest.form, ok |-> r.ok /\ rest.ok,
     last |-> IF rest.results = <<>> THEN Validation(i, r) ELSE rest.last,
     results |-> <<r.ok>> \o rest.results]

RECURSIVE validateFrom(_, _)
\* The forEach callback of validateForm on field i, whose validateField call
\* returned r, and on the fields after it.
validateNext(i, r) == isValid(i, r, validateFrom(r.form, i + 1))

\* validateForm's forEach, from field i on: every field is validated.
validateFrom(fm, i) ==
    IF i > Len(fm.fields)
    THEN [form |-> fm, ok |-> TRUE, last |-> NoValidation, results |-> <<>>]
    ELSE validateNext(i, validateField(fm, i))

validateForm(fm) == validateFrom(fm, 1)

\* Object.fromEntries(new FormData(form).entries()): the fields' values as they
\* are, by field.
formData(fm) == [i \in 1..Len(fm.fields) |-> fm.fields[i].value]

\* JSON.stringify(data): a JSON text, which is not the object it encodes.
JSONstringify(data) == [json |-> TRUE, data |-> data]

\* HTMLFormElement.action: the action attribute, or the document's URL when the
\* attribute is absent or empty.
formAction(fm) == IF fm.action = "" THEN "document-url" ELSE fm.action

\* Variant 2: fetch(this.form.action || '/api/submit', {method: 'POST', body}).
\* `disabled` records the button's disabled flag when the request was made.
fetchRequest(fm, data) ==
    [network |-> TRUE,
     endpoint |-> IF formAction(fm) # "" THEN formAction(fm) ELSE "/api/submit",
     body |-> JSONstringify(data), disabled |-> fm.disabled]

\* Variant 1: sendFormData(data) starts a 1000 ms timeout that logs the data
\* and resolves; nothing is sent.
sendFormData(fm, data) ==
    [network |-> FALSE, endpoint |-> "",
     body |-> [json |-> FALSE, data |-> data], disabled |-> fm.disabled]

submitFormSendFirst(fm) ==
    LET sent == [fm EXCEPT !.requests = Append(@,
                    IF fm.variant = 1 THEN sendFormData(fm, formData(fm))
                    ELSE fetchRequest(fm, formData(fm)))]
    IN [sent EXCEPT !.disabled = IF fm.submitButton THEN TRUE ELSE @]

\* The synchronous part of a valid submit: the button is disabled, then the
\* data is collected and the request starts (variant 1: submitForm up to its
\* await; variant 2: the end of handleSubmit and submitForm up to its await).
submitForm(fm) ==
    LET off == [fm EXCEPT !.disabled = IF fm.submitButton THEN TRUE ELSE @]
    IN [off EXCEPT !.requests = Append(@,
           IF fm.variant = 1 THEN sendFormData(off, formData(off))
           ELSE fetchRequest(off, formData(off)))]

\* form.querySelector('.error'): the first element of the form with class
\* 'error'.  Variant 1's error status element (class 'form-message error') sits
\* at the top of the form and is no field: "status" stands for it.
firstError(fm) ==
    LET errs == {i \in 1..Len(fm.fields) : "error" \in fm.fields[i].classes}
    IN IF fm.variant = 1 /\ \E k \in 1..Len(fm.statusEls) : fm.statusEls[k].kind = "error"
       THEN "status"
       ELSE IF errs = {} THEN "none" ELSE "field"

firstErrorField(fm) ==
    SetMin({i \in 1..Len(fm.fields) : "error" \in fm.fields[i].classes})

\* What handleSubmit leaves: the form, the latest validateField call and
\* validateField's result for each field that validateForm validated.
Submitted(fm, last, results) == [form |-> fm, last |-> last, results |-> results]

\* firstError.focus(), f being the form after it and the validation its blur
\* event made.
focused(v, f) ==
    Submitted(f.form, IF f.last.field # 0 THEN f.last ELSE v.last, v.results)

\* handleSubmit's branch for a form that validateForm found invalid.
focusFirstError(v) ==
    IF firstError(v.form) = "field"
    THEN focused(v, focusField(v.form, firstErrorField(v.form)))
    ELSE Submitted(v.form, v.last, v.results)

submitAlways(v) == Submitted(submitForm(v.form), v.last, v.results)

\* handleSubmit after validateForm returned v.
submitIfValid(v) ==
    IF v.ok THEN Submitted(submitForm(v.form), v.last, v.results)
    ELSE focusFirstError(v)

handleSubmitNoAbort(fm) == submitAlways(validateForm(fm))

\* The submit listener.
handleSubmit(fm) == submitIfValid(validateForm(fm))

\* form.reset(): every field back to its default value, the empty string.
reset(fm) ==
    [fm EXCEPT !.fields = [i \in 1..Len(fm.fields) |-> [fm.fields[i] EXCEPT !.value = <<>>]]]

RECURSIVE clearErrorsFrom(_, _)
clearErrorsFrom(fm, i) ==
    IF i > Len(fm.fields) THEN fm ELSE clearErrorsFrom(clearError(fm, i), i + 1)

enableButton(fm) == [fm EXCEPT !.disabled = IF fm.submitButton THEN FALSE ELSE @]

\* A status element inserted as the form's first child.  `timer` tells that a
\* timeout which removes it is pending, due in `remaining` ticks; `age` counts
\* the ticks since it was inserted.
StatusElement(kind, timer) ==
    [kind |-> kind, timer |-> timer, remaining |-> StatusTicks, age |-> 0]

insertStatus(fm, kind, timer) ==
    [fm EXCEPT !.statusEls = <<StatusElement(kind, timer)>> \o @]

\* Variant 1: showSuccessMessage and showErrorMessage.
showSuccessMessage(fm) == insertStatus(fm, "success", TRUE)

showErrorMessage(fm) == insertStatus(fm, "error", TRUE)

\* Variant 1, sendFormData resolved: showSuccessMessage, reset, clearError on
\* every field, then the finally block.
submitResolved1(fm) ==
    enableButton(clearErrorsFrom(reset(showSuccessMessage(fm)), 1))

\* Variant 2: handleSuccess and handleError.
handleSuccess(fm) ==
    LET shown == reset(insertStatus(fm, "success", TRUE))
    IN [shown EXCEPT !.fields =
           [i \in 1..Len(fm.fields) |->
               [shown.fields[i] EXCEPT !.classes = @ \ {"success", "error"}]]]

handleErrorNoMessage(fm) == fm

handleErrorNoTimeout(fm) == insertStatus(fm, "error", FALSE)

handleError(fm) == insertStatus(fm, "error", TRUE)

\* How a request of variant 2 can end: fetch rejects, the response is not ok,
\* the response is ok and its body is JSON, the response is ok and
\* response.json() rejects.
Outcomes == {"rejected", "notOk", "ok", "okNoJson"}

\* The rest of submitForm after its await: the try block's end, the catch
\* block and the finally block.
completed(fm, outcome) ==
    IF fm.variant = 1 THEN submitResolved1(fm)
    ELSE IF outcome = "ok" THEN enableButton(handleSuccess(fm))
    ELSE enableButton(handleError(fm))

\* History of a submit event or of a completed request: what it was, the
\* results of the validation it made and the form before it.
Submission(kind, outcome, results, fm) ==
    [kind |-> kind, outcome |-> outcome, results |-> results,
     requests |-> fm.requests, disabled |-> fm.disabled, values |-> formData(fm),
     classes |-> [i \in 1..Len(fm.fields) |-> fm.fields[i].classes]]

NoSubmit ==
    [kind |-> "none", outcome |-> "none", results |-> <<>>,
     requests |-> <<>>, disabled |-> FALSE, values |-> <<>>, classes |-> <<>>]

\* The user moves the focus into field i.
FocusField ==
    /\ \E i \in FieldIds :
        /\ form.focus # i
        /\ LET f == focusField(form, i)
           IN /\ form' = f.form
              /\ lastValidate' = f.last
    /\ lastSubmit' = NoSubmit
    /\ UNCHANGED <<inputTimer, carVars, obsVars, restVars>>

\* The user edits the focused field: each keystroke fires 'input', which
\* restarts the debounce timeout of the field's input listener.
TypeChar ==
    /\ form.focus # 0
    /\ \E ch \in Alphabet :
        /\ Append(form.fields[form.focus].value, ch) \in form.values
        /\ form' = [form EXCEPT !.fields[form.focus].value = Append(@, ch)]
    /\ inputTimer' = inputTimer \cup {form.focus}
    /\ lastValidate' = NoValidation
    /\ lastSubmit' = NoSubmit
    /\ UNCHANGED <<carVars, obsVars, restVars>>

Backspace ==
    /\ form.focus # 0
    /\ form.fields[form.focus].value # <<>>
    /\ form' = [form EXCEPT !.fields[form.focus].value = SubSeq(@, 1, Len(@) - 1)]
    /\ inputTimer' = inputTimer \cup {form.focus}
    /\ lastValidate' = NoValidation
    /\ lastSubmit' = NoSubmit
    /\ UNCHANGED <<carVars, obsVars, restVars>>

\* The focus leaves the fields: the blur listener of the focused field runs.
Blur ==
    /\ form.focus # 0
    /\ LET r == validateField(form, form.focus)
       IN /\ form' = [r.form EXCEPT !.focus = 0]
          /\ lastValidate' = Validation(form.focus, r)
    /\ lastSubmit' = NoSubmit
    /\ UNCHANGED <<inputTimer, carVars, obsVars, restVars>>

\* The input listener without its test of the 'error' class.
inputListenerAlways(fm, i) ==
    [form |-> validateField(fm, i).form, last |-> Validation(i, validateField(fm, i))]

\* The function debounced by the input listener of field i: it validates the
\* field only if the field carries the 'error' class.
inputListener(fm, i) ==
    IF "error" \in fm.fields[i].classes
    THEN [form |-> validateField(fm, i).form, last |-> Validation(i, validateField(fm, i))]
    ELSE [form |-> fm, last |-> NoValidation]

\* The debounced input listener, 500 ms after the field's last keystroke.
InputDebounced ==
    /\ \E i \in inputTimer :
        /\ inputTimer' = inputTimer \ {i}
        /\ form' = inputListener(form, i).form
        /\ lastValidate' = inputListener(form, i).last
    /\ lastSubmit' = NoSubmit
    /\ UNCHANGED <<carVars, obsVars, restVars>>

\* The form and the history after the submit listener returned h.
SubmitHandled(h) ==
    /\ form' = h.form
    /\ lastValidate' = h.last
    /\ lastSubmit' = Submission("submit", "none", h.results, form)

\* A submit event.  The browser sends none on behalf of a disabled submit
\* button, but the form's other submitters still do; a valid submit is taken
\* while fewer than MaxInFlight requests are in flight.
Submit ==
    /\ FieldIds # {}
    /\ ~(form.submitButton /\ form.disabled) \/ form.freeSubmit
    /\ validateForm(form).ok => Len(form.requests) < MaxInFlight
    /\ SubmitHandled(handleSubmit(form))
    /\ UNCHANGED <<inputTimer, carVars, obsVars, restVars>>

\* A request ends (variant 1: the oldest, its 1000 ms timeout resolves) and the
\* rest of submitForm runs.
Respond ==
    /\ Len(form.statusEls) < MaxStatus
    /\ \E k \in 1..Len(form.requests) : \E outcome \in Outcomes :
        /\ form.variant = 1 => (k = 1 /\ outcome = "ok")
        /\ form' = completed([form EXCEPT !.requests = RemoveAt(@, k)], outcome)
        /\ lastSubmit' = Submission("completed", outcome, <<>>, form)
    /\ lastValidate' = NoValidation
    /\ UNCHANGED <<inputTimer, carVars, obsVars, restVars>>

\* The 5000 ms timeout of a status element fires and removes the element.
RemoveStatus ==
    /\ \E k \in 1..Len(form.statusEls) :
        /\ form.statusEls[k].timer
        /\ form.statusEls[k].remaining = 0
        /\ form' = [form EXCEPT !.statusEls = RemoveAt(@, k)]
    /\ lastValidate' = NoValidation
    /\ lastSubmit' = NoSubmit
    /\ UNCHANGED <<inputTimer, carVars, obsVars, restVars>>

\* One tick of the status timeouts' delay passes; a due timeout fires before
\* time moves on.
StatusTick ==
    /\ form.statusEls # <<>>
    /\ \A k \in 1..Len(form.statusEls) :
        form.statusEls[k].timer => form.statusEls[k].remaining > 0
    /\ form' = [form EXCEPT !.statusEls =
                  [k \in 1..Len(@) |->
                      [@[k] EXCEPT !.remaining = IF @ > 0 THEN @ - 1 ELSE 0,
                                   !.age = Min(@ + 1, StatusTicks + 1)]]]
    /\ lastValidate' = NoValidation
    /\ lastSubmit' = NoSubmit
    /\ UNCHANGED <<inputTimer, carVars, obsVars, restVars>>

\* ------------------------------------------------------------------------
\* ScrollAnimations, StatisticsCounter, LazyLoader
\* ------------------------------------------------------------------------

\* The elements a controller may select.
Targets == 1..MaxTargets

\* An IntersectionObserverEntry: its target and isIntersecting.
Entry(target, isIntersecting) == [target |-> target, isIntersecting |-> isIntersecting]

\* The batches an observer can hand to its callback: up to MaxBatch queued
\* entries, each for a target that is observed when the callback runs (an
\* unobserved target gets no new entry); one target may have several.
Batches(observed) ==
    UNION {[1..n -> {Entry(t, b) : t \in observed, b \in BOOLEAN}] : n \in 1..MaxBatch}

\* ScrollAnimations.  `timeouts` counts the pending setTimeout callbacks of an
\* element, `additions` the callbacks that have run classList.add on it;
\* `fired` holds the targets whose intersecting entry has been handled.
ScrollAnimations_init(els, supported) ==
    [animatedElements |-> els, observer |-> supported,
     observed |-> IF supported THEN els ELSE {},
     fired |-> {},
     timeouts |-> [e \in Targets |-> 0],
     classes |-> [e \in Targets |-> IF ~supported /\ e \in els THEN {"animated"} ELSE {}],
     additions |-> [e \in Targets |-> 0]]

\* One entry of handleIntersection's forEach.
ScrollAnimations_handleEntryKeepObserving(sa, entry) ==
    IF entry.isIntersecting
    THEN [sa EXCEPT !.timeouts[entry.target] = @ + 1,
                    !.fired = @ \cup {entry.target}]
    ELSE sa

ScrollAnimations_handleEntry(sa, entry) ==
    IF entry.isIntersecting
    THEN [sa EXCEPT !.timeouts[entry.target] = @ + 1,
                    !.observed = @ \ {entry.target},
                    !.fired = @ \cup {entry.target}]
    ELSE sa

RECURSIVE ScrollAnimations_handleIntersection(_, _)
ScrollAnimations_handleIntersection(sa, entries) ==
    IF entries = <<>> THEN sa
    ELSE ScrollAnimations_handleIntersection(
             ScrollAnimations_handleEntry(sa, Head(entries)), Tail(entries))

\* The setTimeout callback of handleIntersection.
ScrollAnimations_timeout(sa, e) ==
    [sa EXCEPT !.timeouts[e] = @ - 1,
               !.classes[e] = @ \cup {"animated", "animate-type"},
               !.additions[e] = @ + 1]

\* StatisticsCounter.  `numeric` holds the counters whose data-counter parses
\* to a number; `started` counts the intervals animateCounter has started on
\* an element.
animateCounter(sc, e) ==
    IF e \notin sc.numeric THEN sc
    ELSE [sc EXCEPT !.started[e] = @ + 1]

RECURSIVE animateCountersFrom(_, _)
animateCountersFrom(sc, todo) ==
    IF todo = {} THEN sc
    ELSE LET e == SetMin(todo)
         IN animateCountersFrom(animateCounter(sc, e), todo \ {e})

animateCounters(sc) == animateCountersFrom(sc, sc.counters)

setupObserver(sc) == [sc EXCEPT !.observer = TRUE, !.observed = sc.counters]

StatisticsCounter_init(counters, numeric, supported) ==
    LET sc == [counters |-> counters, numeric |-> numeric \cap counters,
               animated |-> {}, observer |-> FALSE, observed |-> {}, fired |-> {},
               started |-> [e \in Targets |-> 0]]
    IN IF counters = {} THEN sc
       ELSE IF supported THEN setupObserver(sc)
       ELSE animateCounters(sc)

\* One entry of the observer callback of setupObserver.
StatisticsCounter_handleEntry(sc, entry) ==
    IF entry.isIntersecting
    THEN IF entry.target \notin sc.animated
         THEN [animateCounter(sc, entry.target)
                  EXCEPT !.animated = @ \cup {entry.target},
                         !.fired = @ \cup {entry.target}]
         ELSE [sc EXCEPT !.fired = @ \cup {entry.target}]
    ELSE sc

RECURSIVE StatisticsCounter_callback(_, _)
StatisticsCounter_callback(sc, entries) ==
    IF entries = <<>> THEN sc
    ELSE StatisticsCounter_callback(
             StatisticsCounter_handleEntry(sc, Head(entries)), Tail(entries))

\* LazyLoader.  The markup of a lazy element: its tag and whether it has the
\* data-src and data-srcset attributes.
LazyMarkups ==
    {m \in [tagName : {"IMG", "IFRAME"}, dataSrc : BOOLEAN, dataSrcset : BOOLEAN] :
        IF m.tagName = "IMG" THEN m.dataSrc \/ m.dataSrcset
        ELSE m.dataSrc /\ ~m.dataSrcset}

\* An element as the page delivers it: no real source yet.  `swaps` counts
\* the calls that assigned a source, `listeners` the load/error listener pairs.
LazyElement(m) ==
    [tagName |-> m.tagName, dataSrc |-> m.dataSrc, dataSrcset |-> m.dataSrcset,
     src |-> FALSE, srcset |-> FALSE, swaps |-> 0, listeners |-> 0, classes |-> {}]

loadImage(el) ==
    [el EXCEPT !.srcset = IF el.dataSrcset THEN TRUE ELSE @,
               !.src = IF el.dataSrc THEN TRUE ELSE @,
               !.swaps = IF el.dataSrc \/ el.dataSrcset THEN @ + 1 ELSE @,
               !.listeners = @ + 1]

loadIframe(el) ==
    IF el.dataSrc
    THEN [el EXCEPT !.src = TRUE, !.dataSrc = FALSE, !.swaps = @ + 1]
    ELSE el

loadElement(el) ==
    IF el.tagName = "IMG" THEN loadImage(el)
    ELSE IF el.tagName = "IFRAME" THEN loadIframe(el)
    ELSE el

loadAllImagesOnly(ll) ==
    [ll EXCEPT !.elements =
        [e \in DOMAIN ll.elements |->
            IF ll.elements[e].tagName = "IMG" THEN loadImage(ll.elements[e])
            ELSE ll.elements[e]]]

loadAllImages(ll) ==
    [ll EXCEPT !.elements =
        [e \in DOMAIN ll.elements |->
            IF ll.elements[e].tagName = "IMG" THEN loadImage(ll.elements[e])
            ELSE loadIframe(ll.elements[e])]]

\* markups: the lazy images and iframes of the page, by element.
LazyLoader_init(markups, supported) ==
    LET ll == [elements |-> [e \in DOMAIN markups |-> LazyElement(markups[e])],
               markup |-> markups,
               observer |-> supported,
               observed |-> IF supported THEN DOMAIN markups ELSE {},
               fired |-> {}]
    IN IF ~supported THEN loadAllImages(ll) ELSE ll

LazyLoader_handleEntry(ll, entry) ==
    IF entry.isIntersecting
    THEN [ll EXCEPT !.elements[entry.target] = loadElement(@),
                    !.observed = @ \ {entry.target},
                    !.fired = @ \cup {entry.target}]
    ELSE ll

RECURSIVE LazyLoader_handleIntersection(_, _)
LazyLoader_handleIntersection(ll, entries) ==
    IF entries = <<>> THEN ll
    ELSE LazyLoader_handleIntersection(
             LazyLoader_handleEntry(ll, Head(entries)), Tail(entries))

\* The observer of ScrollAnimations delivers a batch of entries.
ScrollIntersection ==
    /\ scrollAnimations.observer
    /\ \E entries \in Batches(scrollAnimations.observed) :
        scrollAnimations' = ScrollAnimations_handleIntersection(scrollAnimations, entries)
    /\ UNCHANGED <<statisticsCounter, lazyLoader, carVars, formVars, restVars>>

\* A timeout set by handleIntersection fires.
ScrollTimeout ==
    /\ \E e \in Targets :
        /\ scrollAnimations.timeouts[e] > 0
        /\ scrollAnimations' = ScrollAnimations_timeout(scrollAnimations, e)
    /\ UNCHANGED <<statisticsCounter, lazyLoader, carVars, formVars, restVars>>

\* The observer of StatisticsCounter delivers a batch of entries.
StatsIntersection ==
    /\ statisticsCounter.observer
    /\ \E entries \in Batches(statisticsCounter.observed) :
        statisticsCounter' = StatisticsCounter_callback(statisticsCounter, entries)
    /\ UNCHANGED <<scrollAnimations, lazyLoader, carVars, formVars, restVars>>

\* The observer of LazyLoader delivers a batch of entries.
LazyIntersection ==
    /\ lazyLoader.observer
    /\ \E entries \in Batches(lazyLoader.observed) :
        lazyLoader' = LazyLoader_handleIntersection(lazyLoader, entries)
    /\ UNCHANGED <<scrollAnimations, statisticsCounter, carVars, formVars, restVars>>

\* An image whose source was assigned finishes loading: each 'load' listener
\* marks it loaded and removes its data attributes.
ImageLoad ==
    /\ \E e \in DOMAIN lazyLoader.elements :
        /\ lazyLoader.elements[e].tagName = "IMG"
        /\ lazyLoader.elements[e].listeners > 0
        /\ lazyLoader.elements[e].classes = {}
        /\ lazyLoader' = [lazyLoader EXCEPT !.elements[e].classes = {"loaded"},
                                            !.elements[e].dataSrc = FALSE,
                                            !.elements[e].dataSrcset = FALSE]
    /\ UNCHANGED <<scrollAnimations, statisticsCounter, carVars, formVars, restVars>>

\* An image whose source was assigned fails to load: each 'error' listener
\* marks it.
ImageError ==
    /\ \E e \in DOMAIN lazyLoader.elements :
        /\ lazyLoader.elements[e].tagName = "IMG"
        /\ lazyLoader.elements[e].listeners > 0
        /\ lazyLoader.elements[e].classes = {}
        /\ lazyLoader' = [lazyLoader EXCEPT !.elements[e].classes = {"error"}]
    /\ UNCHANGED <<scrollAnimations, statisticsCounter, carVars, formVars, restVars>>

\* ------------------------------------------------------------------------
\* App
\* ------------------------------------------------------------------------

\* The controllers that init() makes, in its order: one per class, and one per
\* matching element for Carousel, FormValidator and Accordion.  Copy 1: lines
\* 938-960; copy 2: lines 2051-2085.
Classes(variant) ==
    IF variant = 1
    THEN <<"MobileNavigation", "SmoothScroll", "ScrollAnimations", "StatisticsCounter",
           "LazyLoader", "HeaderScroll", "BackToTop", "Carousel", "FormValidator">>
    ELSE <<"MobileNavigation", "SmoothScroll", "ScrollAnimations", "StatisticsCounter",
           "Carousel", "FormValidator", "LazyLoader", "HeaderScroll", "ModalHandler",
           "Accordion">>

\* The number of elements of the page that querySelectorAll finds for a class.
Matches(a, class) ==
    CASE class = "Carousel" -> a.carousels
      [] class = "FormValidator" -> a.forms
      [] class = "Accordion" -> a.accordions
      [] OTHER -> 1

RECURSIVE PlanFrom(_, _)
\* The constructor calls of one run of init(), from class k on: the class and
\* the number of the element the controller is made for.
PlanFrom(a, k) ==
    IF k > Len(Classes(a.variant)) THEN <<>>
    ELSE [e \in 1..Matches(a, Classes(a.variant)[k]) |->
             [class |-> Classes(a.variant)[k], el |-> e]] \o PlanFrom(a, k + 1)

Plan(a) == PlanFrom(a, 1)

\* The classes that define a destroy method.
hasDestroy(class) == class = "Carousel"

\* new App(), on a page with the given numbers of carousels, validated forms
\* and accordions.  Copy 2 has no isInitialized field.  History: inits counts
\* the init() calls; lastOp, thrown, before and destroyCalls describe the
\* latest operation.
App(variant, readyState, carousels, forms, accordions) ==
    [variant |-> variant, readyState |-> readyState,
     carousels |-> carousels, forms |-> forms, accordions |-> accordions,
     components |-> <<>>, isInitialized |-> FALSE, listeners |-> 0,
     serial |-> 0, inits |-> 0, warned |-> FALSE,
     lastOp |-> "new", thrown |-> 0, before |-> <<>>, destroyCalls |-> <<>>]

\* The try block of init() (copy 2: of initializeComponents): the constructors
\* run in order and each controller is pushed; when constructor number throwAt
\* throws (0: none does), the catch block logs the error and the rest is skipped.
constructAll(a, plan, throwAt) ==
    [a EXCEPT !.components =
                  @ \o [k \in 1..(IF throwAt = 0 THEN Len(plan) ELSE throwAt - 1) |->
                           [class |-> plan[k].class, el |-> plan[k].el,
                            id |-> a.serial + k]],
              !.serial = @ + (IF throwAt = 0 THEN Len(plan) ELSE throwAt - 1),
              !.isInitialized = IF a.variant = 1 /\ throwAt = 0 THEN TRUE ELSE @,
              !.warned = FALSE,
              !.lastOp = "init", !.thrown = throwAt]

initializeComponents(a, throwAt) == constructAll(a, Plan(a), throwAt)

\* init().  Copy 1 returns with a warning when isInitialized is set; copy 2
\* registers a DOMContentLoaded listener while the document is loading.
App_init(a, throwAt) ==
    IF a.variant = 1
    THEN IF a.isInitialized
         THEN [a EXCEPT !.warned = TRUE, !.lastOp = "init", !.thrown = 0]
         ELSE initializeComponents(a, throwAt)
    ELSE IF a.readyState = "loading"
         THEN [a EXCEPT !.listeners = @ + 1, !.lastOp = "init", !.thrown = 0]
         ELSE initializeComponents(a, throwAt)

RECURSIVE runListeners(_, _)
\* The DOMContentLoaded listeners that copy 2's init() registered run in turn;
\* throws[k] is the constructor that throws in the k-th run.
runListeners(a, throws) ==
    IF throws = <<>> THEN a
    ELSE runListeners(initializeComponents(a, Head(throws)), Tail(throws))

RECURSIVE destroyEach(_, _)
\* destroy()'s forEach, from component k on: the controllers whose destroy()
\* it calls, in order.
destroyEach(components, k) ==
    IF k > Len(components) THEN <<>>
    ELSE (IF hasDestroy(components[k].class) THEN <<components[k].id>> ELSE <<>>)
             \o destroyEach(components, k + 1)

\* destroy() that leaves the registry as it is.
App_destroyKeepRegistry(a) ==
    [a EXCEPT !.before = a.components,
              !.destroyCalls = destroyEach(a.components, 1),
              !.isInitialized = FALSE,
              !.lastOp = "destroy", !.thrown = 0]

\* destroy().  History: before is the registry it found, destroyCalls the
\* destroy() calls it made.
App_destroy(a) ==
    [a EXCEPT !.before = a.components,
              !.destroyCalls = destroyEach(a.components, 1),
              !.components = <<>>,
              !.isInitialized = FALSE,
              !.lastOp = "destroy", !.thrown = 0]

\* A call of init(), by the start code or by any other caller.
AppInit ==
    /\ app.inits < MaxInits
    /\ \E throwAt \in 0..Len(Plan(app)) :
        app' = [App_init(app, throwAt) EXCEPT !.inits = @ + 1]
    /\ UNCHANGED <<destroyed, carVars, formVars, obsVars, uiVars, utilVars, motionVars>>

\* The document has been parsed: the DOMContentLoaded listeners run.
DOMContentLoaded ==
    /\ app.readyState = "loading"
    /\ \E throws \in [1..app.listeners -> 0..Len(Plan(app))] :
        app' = runListeners([app EXCEPT !.readyState = "interactive", !.listeners = 0,
                                        !.lastOp = "DOMContentLoaded", !.thrown = 0],
                            throws)
    /\ UNCHANGED <<destroyed, carVars, formVars, obsVars, uiVars, utilVars, motionVars>>

\* A call of destroy().
AppDestroy ==
    /\ app' = App_destroy(app)
    /\ UNCHANGED <<destroyed, carVars, formVars, obsVars, uiVars, utilVars, motionVars>>

\* ------------------------------------------------------------------------
\* MobileNavigation, ModalHandler and Accordion
\* ------------------------------------------------------------------------

\* The focus delays of MobileNavigation.open (300 ms) and ModalHandler.open
\* (100 ms), in ticks of 100 ms.
NavFocusTicks == 3

ModalFocusTicks == 1

\* The elements that a timeout focuses: the first link of the menu and the
\* first focusable element of a modal.
Element(kind, id) == [kind |-> kind, id |-> id]

NoElement == Element("none", 0)

MenuLink == Element("menu-link", 0)

ModalElement(modalId) == Element("modal", modalId)

\* document.body's overflow style, the focused element, and the host's pending
\* timeouts (their target and the ticks left).  History: moved is the element
\* that the latest event's timeout focused, NoElement when it focused nothing.
Page == [overflow |-> "", focus |-> NoElement, timers |-> {}, moved |-> NoElement]

\* setTimeout(() => target.focus(), delay)
focusLater(pg, target, delay) ==
    [pg EXCEPT !.timers = @ \cup {[target |-> target, remaining |-> delay]}]

\* What an operation on a controller leaves: the controller and the page.
Ui(ctl, pg) == [ctl |-> ctl, page |-> pg]

setupAccessibility(n) == [n EXCEPT !.ariaExpanded = "false"]

\* The constructor and init(): el tells which elements the document has.
MobileNavigation(el) ==
    LET n == [menuToggle |-> el.menuToggle, mobileMenu |-> el.mobileMenu,
              menuOverlay |-> el.menuOverlay, links |-> el.mobileMenu /\ el.links,
              isOpen |-> FALSE, listening |-> FALSE, warned |-> FALSE,
              menuActive |-> FALSE, overlayActive |-> FALSE, toggleActive |-> FALSE,
              ariaExpanded |-> "none"]
    IN IF ~n.menuToggle \/ ~n.mobileMenu THEN [n EXCEPT !.warned = TRUE]
       ELSE setupAccessibility([n EXCEPT !.listening = TRUE])

\* open() that leaves the toggle button's aria-expanded alone.
MobileNavigation_openNoAria(n, pg) ==
    Ui([n EXCEPT !.isOpen = TRUE, !.menuActive = TRUE,
                 !.overlayActive = IF n.menuOverlay THEN TRUE ELSE @,
                 !.toggleActive = TRUE],
       IF n.links
       THEN focusLater([pg EXCEPT !.overflow = "hidden"], MenuLink, NavFocusTicks)
       ELSE [pg EXCEPT !.overflow = "hidden"])

MobileNavigation_open(n, pg) ==
    Ui([n EXCEPT !.isOpen = TRUE, !.menuActive = TRUE,
                 !.overlayActive = IF n.menuOverlay THEN TRUE ELSE @,
                 !.toggleActive = TRUE, !.ariaExpanded = "true"],
       IF n.links
       THEN focusLater([pg EXCEPT !.overflow = "hidden"], MenuLink, NavFocusTicks)
       ELSE [pg EXCEPT !.overflow = "hidden"])

MobileNavigation_close(n, pg) ==
    Ui([n EXCEPT !.isOpen = FALSE, !.menuActive = FALSE,
                 !.overlayActive = IF n.menuOverlay THEN FALSE ELSE @,
                 !.toggleActive = FALSE, !.ariaExpanded = "false"],
       [pg EXCEPT !.overflow = ""])

MobileNavigation_toggle(n, pg) ==
    IF n.isOpen THEN MobileNavigation_close(n, pg) ELSE MobileNavigation_open(n, pg)

\* The constructor and init(): the ids of the [data-modal] elements, the ids
\* that the [data-modal-trigger] elements name, and the modals that hold a
\* focusable element.
ModalHandler(modals, triggers, focusable) ==
    [modals |-> modals, triggers |-> triggers, focusable |-> focusable \cap modals,
     activeModal |-> 0, listening |-> triggers # {},
     active |-> {}, ariaHidden |-> [m \in modals |-> "none"]]

ModalHandler_open(mh, pg, modalId) ==
    IF modalId \notin mh.modals THEN Ui(mh, pg)
    ELSE Ui([mh EXCEPT !.activeModal = modalId,
                       !.active = @ \cup {modalId},
                       !.ariaHidden[modalId] = "false"],
            IF modalId \in mh.focusable
            THEN focusLater([pg EXCEPT !.overflow = "hidden"], ModalElement(modalId),
                            ModalFocusTicks)
            ELSE [pg EXCEPT !.overflow = "hidden"])

ModalHandler_close(mh, pg) ==
    IF mh.activeModal = 0 THEN Ui(mh, pg)
    ELSE Ui([mh EXCEPT !.active = @ \ {mh.activeModal},
                       !.ariaHidden[mh.activeModal] = "true",
                       !.activeModal = 0],
            [pg EXCEPT !.overflow = ""])

\* The events of the menu and the modals leave no focus move behind.
Unmoved(pg) == [pg EXCEPT !.moved = NoElement]

\* A click on the menu toggle button.
ClickMenuToggle ==
    /\ navigation.listening
    /\ navigation' = MobileNavigation_toggle(navigation, Unmoved(page)).ctl
    /\ page' = MobileNavigation_toggle(navigation, Unmoved(page)).page
    /\ UNCHANGED <<modal, accordion, carVars, formVars, obsVars, appVars, utilVars, motionVars>>

\* A click on the menu overlay.
ClickMenuOverlay ==
    /\ navigation.listening /\ navigation.menuOverlay
    /\ navigation' = MobileNavigation_close(navigation, Unmoved(page)).ctl
    /\ page' = MobileNavigation_close(navigation, Unmoved(page)).page
    /\ UNCHANGED <<modal, accordion, carVars, formVars, obsVars, appVars, utilVars, motionVars>>

\* A click on a link of the menu.
ClickNavLink ==
    /\ navigation.listening /\ navigation.links
    /\ navigation' = MobileNavigation_close(navigation, Unmoved(page)).ctl
    /\ page' = MobileNavigation_close(navigation, Unmoved(page)).page
    /\ UNCHANGED <<modal, accordion, carVars, formVars, obsVars, appVars, utilVars, motionVars>>

\* The debounced resize listener runs, the window being wider than 768 px or not.
ResizeDebounced ==
    /\ navigation.listening
    /\ \E wide \in BOOLEAN :
        IF wide /\ navigation.isOpen
        THEN /\ navigation' = MobileNavigation_close(navigation, Unmoved(page)).ctl
             /\ page' = MobileNavigation_close(navigation, Unmoved(page)).page
        ELSE /\ navigation' = navigation
             /\ page' = Unmoved(page)
    /\ UNCHANGED <<modal, accordion, carVars, formVars, obsVars, appVars, utilVars, motionVars>>

\* The keydown listeners of the menu and of the modals on an Escape key.
escapeModal(mh, u) ==
    IF mh.listening /\ mh.activeModal # 0
    THEN ModalHandler_close(mh, u.page)
    ELSE Ui(mh, u.page)

escapeNav(n, pg) ==
    IF n.listening /\ n.isOpen THEN MobileNavigation_close(n, pg) ELSE Ui(n, pg)

\* An Escape key press anywhere in the document.
KeyEscape ==
    /\ navigation.listening \/ modal.listening
    /\ navigation' = escapeNav(navigation, Unmoved(page)).ctl
    /\ modal' = escapeModal(modal, escapeNav(navigation, Unmoved(page))).ctl
    /\ page' = escapeModal(modal, escapeNav(navigation, Unmoved(page))).page
    /\ UNCHANGED <<accordion, carVars, formVars, obsVars, appVars, utilVars, motionVars>>

\* A click on a [data-modal-trigger] element.
ClickModalTrigger ==
    /\ modal.listening
    /\ \E modalId \in modal.triggers :
        /\ modal' = ModalHandler_open(modal, Unmoved(page), modalId).ctl
        /\ page' = ModalHandler_open(modal, Unmoved(page), modalId).page
    /\ UNCHANGED <<navigation, accordion, carVars, formVars, obsVars, appVars, utilVars, motionVars>>

\* A click on a [data-modal-close] element of a modal, or on a modal itself
\* outside its content.
ClickModalClose ==
    /\ modal.listening /\ modal.modals # {}
    /\ modal' = ModalHandler_close(modal, Unmoved(page)).ctl
    /\ page' = ModalHandler_close(modal, Unmoved(page)).page
    /\ UNCHANGED <<navigation, accordion, carVars, formVars, obsVars, appVars, utilVars, motionVars>>

\* A due focus timeout runs: target.focus().
FocusTimeout ==
    /\ \E t \in page.timers :
        /\ t.remaining = 0
        /\ page' = [page EXCEPT !.timers = @ \ {t}, !.focus = t.target,
                                !.moved = t.target]
    /\ UNCHANGED <<navigation, modal, accordion, carVars, formVars, obsVars, appVars, utilVars, motionVars>>

\* One tick of time passes; a due timeout runs before time moves on.
UiTick ==
    /\ page.timers # {}
    /\ \A t \in page.timers : t.remaining > 0
    /\ page' = [Unmoved(page) EXCEPT !.timers = {[t EXCEPT !.remaining = @ - 1] : t \in @}]
    /\ UNCHANGED <<navigation, modal, accordion, carVars, formVars, obsVars, appVars, utilVars, motionVars>>

\* The markup of an .accordion-item: complete, or without its trigger, or
\* without its content.
ItemKinds == {"complete", "noTrigger", "noContent"}

\* The constructor and init(): kinds[i] is the markup of item i.  Items that
\* lack a trigger or a content get no ARIA attributes and no listener.
\* History: lastClick.
Accordion(kinds, allowMultiple) ==
    [items |-> kinds, allowMultiple |-> allowMultiple,
     active |-> {},
     ariaExpanded |-> [i \in 1..Len(kinds) |->
                          IF kinds[i] = "complete" THEN "false" ELSE "none"],
     maxHeight |-> [i \in 1..Len(kinds) |-> "none"],
     lastClick |-> [item |-> 0, wasOpen |-> FALSE, threw |-> FALSE]]

\* open(item), for an item with a trigger and a content.
Accordion_open(ac, i) ==
    [ac EXCEPT !.active = @ \cup {i}, !.ariaExpanded[i] = "true",
               !.maxHeight[i] = "scrollHeight"]

\* close(item): the class goes first, then the trigger's attribute, then the
\* content's style; a missing trigger or content throws a TypeError there.
Accordion_close(ac, i) ==
    [ac EXCEPT !.active = @ \ {i},
               !.ariaExpanded[i] = IF ac.items[i] = "noTrigger" THEN @ ELSE "false",
               !.maxHeight[i] = IF ac.items[i] = "complete" THEN "0" ELSE @]

RECURSIVE closeAllFrom(_, _)
\* closeAll()'s forEach, from item i on; it ends at the first item whose
\* close() throws.
closeAllFrom(ac, i) ==
    IF i > Len(ac.items) THEN [ac |-> ac, threw |-> FALSE]
    ELSE IF ac.items[i] # "complete" THEN [ac |-> Accordion_close(ac, i), threw |-> TRUE]
    ELSE closeAllFrom(Accordion_close(ac, i), i + 1)

closeAll(ac) == closeAllFrom(ac, 1)

\* toggle(item) after closeAll() (or nothing, with data-allow-multiple) left
\* c: isOpen was read before.
toggleAfter(c, i, isOpen) ==
    IF c.threw THEN c.ac
    ELSE IF isOpen THEN Accordion_close(c.ac, i) ELSE Accordion_open(c.ac, i)

Accordion_toggle(ac, i) ==
    toggleAfter(IF ~ac.allowMultiple THEN closeAll(ac) ELSE [ac |-> ac, threw |-> FALSE],
                i, i \in ac.active)

\* A click on the trigger of an item that has a listener.
ClickAccordionTrigger ==
    /\ \E i \in 1..Len(accordion.items) :
        /\ accordion.items[i] = "complete"
        /\ accordion' = [Accordion_toggle(accordion, i) EXCEPT
                            !.lastClick = [item |-> i, wasOpen |-> i \in accordion.active,
                                           threw |-> ~accordion.allowMultiple
                                                        /\ closeAll(accordion).threw]]
    /\ UNCHANGED <<navigation, modal, page, carVars, formVars, obsVars, appVars, utilVars, motionVars>>

\* ------------------------------------------------------------------------
\* debounce and throttle
\* ------------------------------------------------------------------------

\* The arguments that the debounced function is called with.
ArgValues == {"a", "b"}

\* setTimeout's return value: a handle that no pending timeout uses.
FreshTimeout(timers) ==
    CHOOSE h \in 1..(Cardinality(timers) + 1) : \A t \in timers : t.id # h

clearTimeout(timers, handle) == {t \in timers : t.id # handle}

\* debounce(func, wait): the closure variable timeout (0: undefined) and the
\* host's pending timeouts, each with the arguments its `later` closure holds.
\* History: sinceCall is the time since the latest call (capped past the wait),
\* lastArgs its arguments, waiting tells that a call was made and func has not
\* run since, calls counts the calls since func ran (up to MaxBurst), ran
\* describes the latest event when it ran func.
debounce(wait) ==
    [wait |-> wait, timeout |-> 0, timers |-> {},
     sinceCall |-> wait + 1, lastArgs |-> "none", waiting |-> FALSE, calls |-> 0,
     ran |-> [args |-> "none", after |-> 0, runs |-> 0, calls |-> 0]]

NotRan == [args |-> "none", after |-> 0, runs |-> 0, calls |-> 0]

\* executedFunction without its clearTimeout.
executedFunctionNoClear(d, args) ==
    [d EXCEPT !.timeout = FreshTimeout(d.timers),
              !.timers = @ \cup {[id |-> FreshTimeout(d.timers), args |-> args,
                                   remaining |-> d.wait]}]

\* The debounced function, called with args.
executedFunction(d, args) ==
    [d EXCEPT !.timeout = FreshTimeout(clearTimeout(d.timers, d.timeout)),
              !.timers = clearTimeout(@, d.timeout)
                            \cup {[id |-> FreshTimeout(clearTimeout(d.timers, d.timeout)),
                                   args |-> args, remaining |-> d.wait]}]

\* `later`, the callback of timeout t: clearTimeout(timeout), then func(...args).
later(d, t) ==
    [d EXCEPT !.timers = clearTimeout(@ \ {t}, d.timeout)]

\* throttle(func, limit): the closure variable inThrottle and the host's pending
\* timeouts.  History: sinceRun is the time since func ran last (capped at
\* the limit; the limit before any run), call describes the latest event when
\* it is a call: whether func ran, the time since the run before, and whether
\* func had run before the call.
throttle(limit) ==
    [limit |-> limit, inThrottle |-> FALSE, timers |-> {},
     sinceRun |-> limit, everRan |-> FALSE,
     call |-> [made |-> FALSE, ran |-> FALSE, gap |-> 0, before |-> FALSE]]

\* The throttled function that never sets inThrottle.
throttledFunctionNoFlag(th) ==
    IF ~th.inThrottle
    THEN [th EXCEPT !.timers = @ \cup {[remaining |-> th.limit]},
                    !.sinceRun = 0, !.everRan = TRUE,
                    !.call = [made |-> TRUE, ran |-> TRUE, gap |-> th.sinceRun,
                              before |-> th.everRan]]
    ELSE [th EXCEPT !.call = [made |-> TRUE, ran |-> FALSE, gap |-> th.sinceRun,
                              before |-> th.everRan]]

\* The throttled function, called.
throttledFunction(th) ==
    IF ~th.inThrottle
    THEN [th EXCEPT !.inThrottle = TRUE,
                    !.timers = @ \cup {[remaining |-> th.limit]},
                    !.sinceRun = 0, !.everRan = TRUE,
                    !.call = [made |-> TRUE, ran |-> TRUE, gap |-> th.sinceRun,
                              before |-> th.everRan]]
    ELSE [th EXCEPT !.call = [made |-> TRUE, ran |-> FALSE, gap |-> th.sinceRun,
                              before |-> th.everRan]]

NoCall == [made |-> FALSE, ran |-> FALSE, gap |-> 0, before |-> FALSE]

\* A call of the debounced function.  A due timeout runs before a new event.
CallDebounced ==
    /\ \A t \in debounced.timers : t.remaining > 0
    /\ \E args \in ArgValues :
        debounced' = [executedFunction(debounced, args) EXCEPT
                         !.sinceCall = 0, !.lastArgs = args, !.waiting = TRUE,
                         !.calls = Min(@ + 1, MaxBurst), !.ran = NotRan]
    /\ throttled' = [throttled EXCEPT !.call = NoCall]
    /\ UNCHANGED <<carVars, formVars, obsVars, appVars, uiVars, motionVars>>

\* A due timeout of the debounced function runs `later`.
DebounceTimeout ==
    /\ \E t \in debounced.timers :
        /\ t.remaining = 0
        /\ debounced' = [later(debounced, t) EXCEPT
                            !.waiting = FALSE, !.calls = 0,
                            !.ran = [args |-> t.args, after |-> debounced.sinceCall,
                                     runs |-> IF debounced.waiting THEN 1 ELSE 2,
                                     calls |-> debounced.calls]]
    /\ throttled' = [throttled EXCEPT !.call = NoCall]
    /\ UNCHANGED <<carVars, formVars, obsVars, appVars, uiVars, motionVars>>

\* A call of the throttled function.  A due timeout runs before a new event.
CallThrottled ==
    /\ \A t \in throttled.timers : t.remaining > 0
    /\ throttled' = throttledFunction(throttled)
    /\ debounced' = [debounced EXCEPT !.ran = NotRan]
    /\ UNCHANGED <<carVars, formVars, obsVars, appVars, uiVars, motionVars>>

\* A due timeout of the throttled function runs: inThrottle = false.
ThrottleTimeout ==
    /\ \E t \in throttled.timers :
        /\ t.remaining = 0
        /\ throttled' = [throttled EXCEPT !.timers = @ \ {t}, !.inThrottle = FALSE,
                                          !.call = NoCall]
    /\ debounced' = [debounced EXCEPT !.ran = NotRan]
    /\ UNCHANGED <<carVars, formVars, obsVars, appVars, uiVars, motionVars>>

\* One tick of time passes; due timeouts run before time moves on.
UtilTick ==
    /\ \A t \in debounced.timers \cup throttled.timers : t.remaining > 0
    /\ \/ debounced.timers # {} \/ throttled.timers # {}
       \/ debounced.sinceCall <= debounced.wait
       \/ throttled.sinceRun < throttled.limit
    /\ debounced' = [debounced EXCEPT
                        !.timers = {[t EXCEPT !.remaining = @ - 1] : t \in @},
                        !.sinceCall = Min(@ + 1, debounced.wait + 1),
                        !.ran = NotRan]
    /\ throttled' = [throttled EXCEPT
                        !.timers = {[t EXCEPT !.remaining = @ - 1] : t \in @},
                        !.sinceRun = Min(@ + 1, throttled.limit),
                        !.call = NoCall]
    /\ UNCHANGED <<carVars, formVars, obsVars, appVars, uiVars, motionVars>>

\* ------------------------------------------------------------------------
\* StatisticsCounter.animateCounter: the animation of one counter
\* ------------------------------------------------------------------------

\* The values of a [data-counter] element's data-counter and data-duration
\* attributes, and of its data-prefix and data-suffix.
CounterTargets == (-MaxTarget)..MaxTarget

CounterDurations == {d \in (-MaxDuration)..MaxDuration : d % 8 = 0}

Affixes == {"", "$"}

\* The text of the element: its prefix, the number it shows and its suffix.
\* The numbers are small enough that toLocaleString() groups no digits.
CounterText(c, n) == [shown |-> TRUE, prefix |-> c.prefix, number |-> n, suffix |-> c.suffix]

\* A [data-counter] element before its animation: parseInt(data-duration)
\* || 2000 is 2000 for an attribute that is 0, missing or not a number.
CounterElement(target, durationAttr, prefix, suffix) ==
    [target |-> target,
     duration |-> IF durationAttr = 0 THEN DefaultDuration ELSE durationAttr,
     prefix |-> prefix, suffix |-> suffix,
     started |-> FALSE, timer |-> FALSE, ticks |-> 0,
     text |-> [shown |-> FALSE, prefix |-> "", number |-> 0, suffix |-> ""]]

\* animateCounter(element): current = 0 and the 16 ms interval is set.
StatisticsCounter_animateCounter(c) ==
    [c EXCEPT !.started = TRUE, !.timer = TRUE, !.ticks = 0]

\* `current` after c.ticks callbacks is ticks * increment
\* = ticks * target * 16 / duration, here the exact fraction
\* currentNum / currentDen with a positive denominator.
currentNum(c) ==
    IF c.duration > 0 THEN IntervalMs * c.ticks * c.target
    ELSE -(IntervalMs * c.ticks * c.target)

currentDen(c) == IF c.duration > 0 THEN c.duration ELSE -c.duration

\* Math.round(current): the nearest integer, a half rounded upwards.
roundCurrent(c) == (2 * currentNum(c) + currentDen(c)) \div (2 * currentDen(c))

\* The callback of the interval: current += increment, then the test
\* current >= target.
intervalCallback(c) ==
    IF currentNum([c EXCEPT !.ticks = @ + 1]) >= c.target * currentDen(c)
    THEN [c EXCEPT !.ticks = @ + 1, !.text = CounterText(c, c.target), !.timer = FALSE]
    ELSE [c EXCEPT !.ticks = @ + 1,
                   !.text = CounterText(c, roundCurrent([c EXCEPT !.ticks = @ + 1]))]

\* The element's first intersection (or the fallback of init) starts its
\* animation.
AnimateCounter ==
    /\ ~counter.started
    /\ counter' = StatisticsCounter_animateCounter(counter)
    /\ UNCHANGED <<scroller, carVars, formVars, obsVars, appVars, uiVars, utilVars>>

\* 16 ms pass and the interval's callback runs.  Every animation that ends
\* does so before MaxCounterTicks callbacks; in one that does not, current
\* moves away from the target for ever, and the count of callbacks beyond
\* MaxCounterTicks is folded back by two.
CounterTick ==
    /\ counter.timer
    /\ counter' = intervalCallback(IF counter.ticks < MaxCounterTicks THEN counter
                                   ELSE [counter EXCEPT !.ticks = MaxCounterTicks - 2])
    /\ UNCHANGED <<scroller, carVars, formVars, obsVars, appVars, uiVars, utilVars>>

\* ------------------------------------------------------------------------
\* HeaderScroll and BackToTop
\* ------------------------------------------------------------------------

\* Scroll offsets (window.pageYOffset), below, at and above the thresholds.
Offsets == {100 * k : k \in 0..MaxOffset}

\* The throttle of a scroll listener: inThrottle and its pending timeouts.
ScrollThrottle == [inThrottle |-> FALSE, timers |-> {}]

\* The HeaderScroll and BackToTop objects after construction, the classes of
\* their elements and the page's scroll offset.  header and button tell
\* whether the elements exist; without its element a controller adds no
\* listener.
Scroller(header, button) ==
    [pageYOffset |-> 0,
     header |-> header, lastScroll |-> 0, headerClasses |-> {},
     headerThrottle |-> ScrollThrottle,
     button |-> button, buttonClasses |-> {},
     buttonThrottle |-> ScrollThrottle]

HeaderScroll_handleScroll(s) ==
    [s EXCEPT !.headerClasses =
                  (IF s.pageYOffset > ScrollThreshold THEN {"scrolled"} ELSE {})
                  \cup (IF s.pageYOffset > s.lastScroll /\ s.pageYOffset > ScrollThreshold
                        THEN {"hidden"} ELSE {}),
              !.lastScroll = s.pageYOffset]

BackToTop_handleScroll(s) ==
    [s EXCEPT !.buttonClasses = IF s.pageYOffset > ShowThreshold
                                THEN @ \cup {"visible"} ELSE @ \ {"visible"}]

\* The function made by throttle(func, 100), called: it sets inThrottle and the
\* timeout that unsets it.
throttleEntered(th) ==
    [inThrottle |-> TRUE, timers |-> th.timers \cup {[remaining |-> LimitTicks]}]

\* The two scroll listeners, in the order in which App registers them: each
\* runs its handleScroll unless its inThrottle is set.
headerListener(s) ==
    IF ~s.header \/ s.headerThrottle.inThrottle THEN s
    ELSE [HeaderScroll_handleScroll(s) EXCEPT !.headerThrottle = throttleEntered(@)]

buttonListener(s) ==
    IF ~s.button \/ s.buttonThrottle.inThrottle THEN s
    ELSE [BackToTop_handleScroll(s) EXCEPT !.buttonThrottle = throttleEntered(@)]

ScrollTimers(s) == s.headerThrottle.timers \cup s.buttonThrottle.timers

\* The page is scrolled to another offset and a scroll event is dispatched.
ScrollEvent ==
    /\ \A t \in ScrollTimers(scroller) : t.remaining > 0
    /\ \E y \in Offsets \ {scroller.pageYOffset} :
        scroller' = buttonListener(headerListener([scroller EXCEPT !.pageYOffset = y]))
    /\ UNCHANGED <<counter, carVars, formVars, obsVars, appVars, uiVars, utilVars>>

\* A due timeout of a throttle runs: inThrottle = false.
ScrollThrottleTimeout ==
    /\ \/ \E t \in scroller.headerThrottle.timers :
             /\ t.remaining = 0
             /\ scroller' = [scroller EXCEPT !.headerThrottle =
                                 [inThrottle |-> FALSE, timers |-> @.timers \ {t}]]
       \/ \E t \in scroller.buttonThrottle.timers :
             /\ t.remaining = 0
             /\ scroller' = [scroller EXCEPT !.buttonThrottle =
                                 [inThrottle |-> FALSE, timers |-> @.timers \ {t}]]
    /\ UNCHANGED <<counter, carVars, formVars, obsVars, appVars, uiVars, utilVars>>

\* One tick of time passes; a due timeout runs before time moves on.
ScrollTick ==
    /\ ScrollTimers(scroller) # {}
    /\ \A t \in ScrollTimers(scroller) : t.remaining > 0
    /\ scroller' = [scroller EXCEPT
                       !.headerThrottle.timers = {[t EXCEPT !.remaining = @ - 1] : t \in @},
                       !.buttonThrottle.timers = {[t EXCEPT !.remaining = @ - 1] : t \in @}]
    /\ UNCHANGED <<counter, carVars, formVars, obsVars, appVars, uiVars, utilVars>>

\* ------------------------------------------------------------------------
\* Specifications
\* ------------------------------------------------------------------------

\* A page without a carousel.
CarouselIdle ==
    /\ carousel = Carousel([track |-> FALSE, slides |-> 0, prevButton |-> FALSE,
                            nextButton |-> FALSE, dotsContainer |-> FALSE,
                            autoplay |-> FALSE])
    /\ touch = [startX |-> 0, currentX |-> 0, isDragging |-> FALSE]
    /\ hovering = FALSE
    /\ gesture = [startX |-> 0, lastX |-> 0]
    /\ sinceNav = DelayTicks
    /\ nextHist = <<>>
    /\ lastCall = Call("init", 0, "none")

\* A page without a validated form.
FormIdle ==
    /\ form = FormValidator(1, <<>>, FALSE, {})
    /\ inputTimer = {}
    /\ lastValidate = NoValidation
    /\ lastSubmit = NoSubmit

\* A page without animated elements, counters and lazy elements.
ObserversIdle ==
    /\ scrollAnimations = ScrollAnimations_init({}, TRUE)
    /\ statisticsCounter = StatisticsCounter_init({}, {}, TRUE)
    /\ lazyLoader = LazyLoader_init(<<>>, TRUE)

\* A page whose App, menu, modals, accordion and utility functions are left alone.
AppIdle ==
    /\ app = App(1, "complete", 0, 0, 0)
    /\ destroyed = FALSE

UiIdle ==
    /\ navigation = MobileNavigation([menuToggle |-> FALSE, mobileMenu |-> FALSE,
                               menuOverlay |-> FALSE, links |-> FALSE])
    /\ modal = ModalHandler({}, {}, {})
    /\ accordion = Accordion(<<>>, FALSE)
    /\ page = Page

UtilIdle ==
    /\ debounced = debounce(WaitTicks)
    /\ throttled = throttle(LimitTicks)

MotionIdle ==
    /\ counter = CounterElement(0, 0, "", "")
    /\ scroller = Scroller(FALSE, FALSE)

RestIdle == AppIdle /\ UiIdle /\ UtilIdle /\ MotionIdle

InitCarousel == CarouselInit /\ FormIdle /\ ObserversIdle /\ RestIdle

NextCarousel ==
    \/ KeyArrowLeft
    \/ KeyArrowRight
    \/ ClickPrev
    \/ ClickNext
    \/ ClickDot
    \/ CallGoToSlide
    \/ MouseEnter
    \/ MouseLeave
    \/ TouchStart
    \/ TouchMove
    \/ TouchEnd
    \/ AutoPlayTick
    \/ Advance

SpecCarousel == InitCarousel /\ [][NextCarousel]_vars

\* One field of any configuration, in either copy of FormValidator; the user
\* types, leaves the field and comes back, and the debounced input handler runs.
InitValidate ==
    /\ \E variant \in {1, 2} : \E cfg \in FieldConfigs :
        form = FormValidator(variant, <<Field(cfg, 1)>>, FALSE, Values)
    /\ inputTimer = {}
    /\ lastValidate = NoValidation
    /\ lastSubmit = NoSubmit
    /\ CarouselIdle
    /\ ObserversIdle
    /\ RestIdle

NextValidate ==
    \/ FocusField
    \/ TypeChar
    \/ Backspace
    \/ Blur
    \/ InputDebounced

SpecValidate == InitValidate /\ [][NextValidate]_vars

\* The field kinds of the two-field forms: a required number and an optional
\* number.
FormFieldKinds ==
    { [required |-> TRUE, minlength |-> {}, maxlength |-> {},
       validate |-> "number", validator |-> "none"],
      [required |-> FALSE, minlength |-> {}, maxlength |-> {},
       validate |-> "number", validator |-> "none"] }

\* The values typed into the fields of the two-field forms.
FormValues == {<<>>, <<"1">>, <<"@">>}

\* A form of two validated fields, the first one required, which share their
\* error element key (one parent element, one error id) or not, with a submit
\* button.
InitForm ==
    /\ \E variant \in {1, 2} : \E a \in FormFieldKinds : \E b \in FormFieldKinds :
       \E key \in {1, 2} :
        /\ a.required
        /\ form = FormValidator(variant, <<Field(a, 1), Field(b, key)>>, TRUE, FormValues)
    /\ inputTimer = {}
    /\ lastValidate = NoValidation
    /\ lastSubmit = NoSubmit
    /\ CarouselIdle
    /\ ObserversIdle
    /\ RestIdle

NextForm ==
    \/ FocusField
    \/ TypeChar
    \/ Backspace
    \/ Blur
    \/ InputDebounced
    \/ Submit
    \/ Respond
    \/ RemoveStatus
    \/ StatusTick

SpecForm == InitForm /\ [][NextForm]_vars

\* The values typed into the field of the one-field form: the prefixes of an
\* e-mail address and of the same address after a space.
EmailValues ==
    UNION {{SubSeq(t, 1, k) : k \in 0..Len(t)} :
              t \in {<<"1", "@", "1", ".", "1">>, <<" ", "1", "@", "1", ".", "1">>}}

\* The submit controls of a form: a [type="submit"] button that is the form's
\* only submitter, or one next to other submitters.
Submitters == {"button", "buttonAndOthers"}

\* The forms whose submission is followed, each with a submit button: either
\* two number fields with an error element each, the second one required, or
\* one required e-mail field, with or without an action attribute and with or
\* without other submitters.
InitSubmit ==
    /\ \E variant \in {1, 2} :
        \/ \E a \in FormFieldKinds :
              form = FormValidator(variant,
                                   <<Field(a, 1), Field([a EXCEPT !.required = TRUE], 2)>>,
                                   TRUE, FormValues)
        \/ \E action \in {"", "/subscribe"} : \E submitter \in Submitters :
              form = [FormValidator(variant,
                                    <<Field([required |-> TRUE, minlength |-> {},
                                             maxlength |-> {}, validate |-> "email",
                                             validator |-> "none"], 1)>>,
                                    TRUE, EmailValues)
                        EXCEPT !.action = action,
                               !.freeSubmit = (submitter = "buttonAndOthers")]
    /\ inputTimer = {}
    /\ lastValidate = NoValidation
    /\ lastSubmit = NoSubmit
    /\ CarouselIdle
    /\ ObserversIdle
    /\ RestIdle

SpecSubmit == InitSubmit /\ [][NextForm]_vars

\* A page whose elements are the first n targets, all of them animated
\* elements, or counters, or lazy images and iframes, in a browser with or
\* without IntersectionObserver.
InitObservers ==
    /\ \E supported \in BOOLEAN : \E n \in 0..MaxTargets :
        \/ /\ scrollAnimations = ScrollAnimations_init(1..n, supported)
           /\ statisticsCounter = StatisticsCounter_init({}, {}, supported)
           /\ lazyLoader = LazyLoader_init(<<>>, supported)
        \/ /\ scrollAnimations = ScrollAnimations_init({}, supported)
           /\ \E numeric \in SUBSET (1..n) :
                statisticsCounter = StatisticsCounter_init(1..n, numeric, supported)
           /\ lazyLoader = LazyLoader_init(<<>>, supported)
        \/ /\ scrollAnimations = ScrollAnimations_init({}, supported)
           /\ statisticsCounter = StatisticsCounter_init({}, {}, supported)
           /\ \E markups \in [1..n -> LazyMarkups] :
                lazyLoader = LazyLoader_init(markups, supported)
    /\ CarouselIdle
    /\ FormIdle
    /\ RestIdle

NextObservers ==
    \/ ScrollIntersection
    \/ ScrollTimeout
    \/ StatsIntersection
    \/ LazyIntersection
    \/ ImageLoad
    \/ ImageError

SpecObservers == InitObservers /\ [][NextObservers]_vars

\* A carousel of any markup, its events, and destroy() at any time.
NextTeardown == NextCarousel \/ DestroyCarousel

SpecTeardown == InitCarousel /\ [][NextTeardown]_vars

\* An App of either copy on a page with or without carousels, validated forms
\* and accordions, created while the document is loading or later.
InitApp ==
    /\ \E variant \in {1, 2} : \E readyState \in {"loading", "complete"} :
       \E carousels \in 0..MaxElements : \E forms \in 0..MaxElements :
       \E accordions \in 0..MaxElements :
        app = App(variant, readyState, carousels, forms, accordions)
    /\ destroyed = FALSE
    /\ UiIdle /\ UtilIdle
    /\ CarouselIdle /\ FormIdle /\ ObserversIdle /\ MotionIdle

NextApp ==
    \/ AppInit
    \/ DOMContentLoaded
    \/ AppDestroy

SpecApp == InitApp /\ [][NextApp]_vars

\* A page with any of the menu's elements and with modals and triggers, some
\* of which name a modal that the page lacks.
InitMenus ==
    /\ \E el \in [menuToggle : BOOLEAN, mobileMenu : BOOLEAN, menuOverlay : BOOLEAN,
                   links : BOOLEAN] :
        navigation = MobileNavigation(el)
    /\ \E modals \in SUBSET (1..MaxModals) : \E triggers \in SUBSET (1..(MaxModals + 1)) :
       \E focusable \in SUBSET modals :
        modal = ModalHandler(modals, triggers, focusable)
    /\ accordion = Accordion(<<>>, FALSE)
    /\ page = Page
    /\ AppIdle /\ UtilIdle
    /\ CarouselIdle /\ FormIdle /\ ObserversIdle /\ MotionIdle

NextMenus ==
    \/ ClickMenuToggle
    \/ ClickMenuOverlay
    \/ ClickNavLink
    \/ ResizeDebounced
    \/ KeyEscape
    \/ ClickModalTrigger
    \/ ClickModalClose
    \/ FocusTimeout
    \/ UiTick

SpecMenus == InitMenus /\ [][NextMenus]_vars

\* A page with MaxDialogs modals, each with a trigger, and no mobile menu.
InitModals ==
    /\ navigation = MobileNavigation([menuToggle |-> FALSE, mobileMenu |-> FALSE,
                                      menuOverlay |-> FALSE, links |-> FALSE])
    /\ \E focusable \in SUBSET (1..MaxDialogs) :
        modal = ModalHandler(1..MaxDialogs, 1..MaxDialogs, focusable)
    /\ accordion = Accordion(<<>>, FALSE)
    /\ page = Page
    /\ AppIdle /\ UtilIdle
    /\ CarouselIdle /\ FormIdle /\ ObserversIdle /\ MotionIdle

NextModals ==
    \/ KeyEscape
    \/ ClickModalTrigger
    \/ ClickModalClose
    \/ FocusTimeout
    \/ UiTick

SpecModals == InitModals /\ [][NextModals]_vars

\* An accordion of up to MaxItems items of any markup, with or without
\* data-allow-multiple.
InitAccordion ==
    /\ \E n \in 0..MaxItems : \E kinds \in [1..n -> ItemKinds] :
       \E allowMultiple \in BOOLEAN :
        accordion = Accordion(kinds, allowMultiple)
    /\ navigation = MobileNavigation([menuToggle |-> FALSE, mobileMenu |-> FALSE,
                               menuOverlay |-> FALSE, links |-> FALSE])
    /\ modal = ModalHandler({}, {}, {})
    /\ page = Page
    /\ AppIdle /\ UtilIdle
    /\ CarouselIdle /\ FormIdle /\ ObserversIdle /\ MotionIdle

SpecAccordion == InitAccordion /\ [][ClickAccordionTrigger]_vars

\* A debounced function and a throttled function, called at any time.
InitUtil ==
    /\ UtilIdle
    /\ AppIdle /\ UiIdle
    /\ CarouselIdle /\ FormIdle /\ ObserversIdle /\ MotionIdle

NextUtil ==
    \/ CallDebounced
    \/ DebounceTimeout
    \/ CallThrottled
    \/ ThrottleTimeout
    \/ UtilTick

SpecUtil == InitUtil /\ [][NextUtil]_vars

\* One counter: every target and duration attribute, with and without affixes.
InitCounter ==
    /\ \E target \in CounterTargets : \E durationAttr \in CounterDurations :
       \E prefix \in Affixes : \E suffix \in Affixes :
        counter = CounterElement(target, durationAttr, prefix, suffix)
    /\ scroller = Scroller(FALSE, FALSE)
    /\ AppIdle /\ UiIdle /\ UtilIdle
    /\ CarouselIdle /\ FormIdle /\ ObserversIdle

NextCounter ==
    \/ AnimateCounter
    \/ CounterTick

\* The interval's callback runs every 16 ms for as long as the interval is set.
SpecCounter == InitCounter /\ [][NextCounter]_vars /\ WF_vars(CounterTick)

\* A page with or without a header and a back-to-top button.
InitScroll ==
    /\ \E header \in BOOLEAN : \E button \in BOOLEAN :
        scroller = Scroller(header, button)
    /\ counter = CounterElement(0, 0, "", "")
    /\ AppIdle /\ UiIdle /\ UtilIdle
    /\ CarouselIdle /\ FormIdle /\ ObserversIdle

NextScroll ==
    \/ ScrollEvent
    \/ ScrollThrottleTimeout
    \/ ScrollTick

SpecScroll == InitScroll /\ [][NextScroll]_vars

\* ------------------------------------------------------------------------
\* Carousel properties
\* ------------------------------------------------------------------------

ValidIndex(c) == c.currentIndex \in 0..(c.slides - 1)

\* C1 (as stated): in every reachable state of a carousel with n > 0 slides,
\* 0 <= currentIndex < n, whatever calls (goToSlide(i) for any integer i
\* included) have occurred.
C1_IndexAlwaysValid == carousel.listening => ValidIndex(carousel)

\* C1 (amended): currentIndex starts valid, and every operation other than a
\* goToSlide(i) with i outside 0..n-1 takes a valid currentIndex to a valid
\* currentIndex: next(), prev(), dot clicks, arrow keys, swipes, autoplay ticks
\* and goToSlide(i) with 0 <= i < n never leave the range.
C1_IndexStaysValid ==
    /\ (carousel.listening => ValidIndex(carousel))
    /\ [][(/\ ValidIndex(carousel)
           /\ ~(lastCall'.op = "goToSlide" /\ lastCall'.arg \notin 0..(carousel.slides - 1)))
          => ValidIndex(carousel')]_vars

C1_Witness ==
    /\ carousel.slides = 3
    /\ lastCall.op = "prev"
    /\ carousel.currentIndex = 2
    /\ nextHist = <<>>
    /\ sinceNav = 0

\* C2: from a valid index, one next() moves currentIndex to (currentIndex + 1)
\* mod n, and n consecutive next() calls bring it back to where it started.
C2_NextCycles ==
    carousel.listening =>
        /\ (nextHist # <<>> /\ nextHist[Len(nextHist)] \in 0..(carousel.slides - 1))
              => carousel.currentIndex = (nextHist[Len(nextHist)] + 1) % carousel.slides
        /\ (Len(nextHist) = carousel.slides /\ nextHist[1] \in 0..(carousel.slides - 1))
              => carousel.currentIndex = nextHist[1]

C2_Witness ==
    /\ carousel.slides = 3
    /\ nextHist = <<1, 2, 0>>
    /\ carousel.currentIndex = 1

\* C3: goToSlide(i) with 0 <= i < n leaves currentIndex = i, and slide i and
\* dot i (when the carousel has dots) are the only ones marked active.
C3_GoToSlideSets ==
    (lastCall.op = "goToSlide" /\ lastCall.arg \in 0..(carousel.slides - 1)) =>
        /\ carousel.currentIndex = lastCall.arg
        /\ carousel.slideActive = {lastCall.arg}
        /\ carousel.dots => carousel.dotActive = {lastCall.arg}

C3_Witness ==
    /\ lastCall.op = "goToSlide"
    /\ lastCall.arg = 2
    /\ carousel.dots
    /\ carousel.dotActive = {2}
    /\ carousel.slideActive = {2}

\* C4: with autoplay enabled, right after a manual navigation the only live
\* interval is a fresh one with the full delay ahead of it, and at no time is
\* an autoplay interval due sooner than one full delay after the latest
\* manual navigation.
C4_NavResetsAutoPlay ==
    (carousel.listening /\ carousel.isAutoPlay) =>
        /\ \A t \in carousel.intervals : sinceNav + t.remaining >= carousel.autoPlayDelay
        /\ (lastCall.nav # "none" /\ lastCall.op # "autoPlayTick")
              => carousel.intervals = {[id |-> carousel.autoPlayInterval,
                                        remaining |-> carousel.autoPlayDelay]}

C4_Witness ==
    /\ carousel.isAutoPlay
    /\ sinceNav = 1
    /\ \E t \in carousel.intervals : t.remaining = carousel.autoPlayDelay - 1

\* C5: no autoplay tick advances the carousel between mouseenter and
\* mouseleave, nor between touchstart and touchend, whatever else happens in
\* between.
C5_NoTickWhilePaused ==
    ~(lastCall.op = "autoPlayTick" /\ (hovering \/ touch.isDragging))

\* C6: touchend navigates by the delta of its own gesture (start X minus the
\* last X of that gesture, the start X itself when there was no touchmove):
\* next() above the threshold, prev() below minus the threshold, else nothing.
C6_SwipeByGestureDelta ==
    lastCall.op = "touchend" => lastCall.nav = swipe(lastCall.arg)

\* ------------------------------------------------------------------------
\* FormValidator properties: validateField
\* ------------------------------------------------------------------------

\* The texts of the error messages displayed for field i.
ShownTexts(fm, i) ==
    {fm.errEls[k].text :
        k \in {j \in 1..Len(fm.errEls) :
                  fm.errEls[j].key = fm.fields[i].key /\ fm.errEls[j].visible}}

\* The field of the latest validateField call and its trimmed value.
Validated_field == form.fields[lastValidate.field]

Validated_value == trim(Validated_field.value)

\* C7: a required field whose trimmed value is empty fails validateField with
\* 'This field is required', whatever its other rules and its earlier state.
C7_RequiredEmptyFails ==
    (/\ lastValidate.field # 0
     /\ Validated_field.required
     /\ \A k \in 1..Len(Validated_field.value) : Validated_field.value[k] = " ")
    => /\ ~lastValidate.ok
       /\ "error" \in Validated_field.classes
       /\ ShownTexts(form, lastValidate.field) = {Msg("This field is required", 0)}

C7_Witness ==
    /\ lastValidate.field # 0
    /\ Validated_field.required
    /\ Validated_field.value = <<" ", " ">>
    /\ Validated_field.minlength = {4}
    /\ Validated_field.validate = "email"
    /\ Validated_field.validator = "reject"
    /\ ~lastValidate.ok

\* The rules in the order of the claim, each judged on its own.
RuleOrder == <<"required", "minlength", "maxlength", "type", "custom">>

RuleFails(field, value, rule) ==
    CASE rule = "required" -> field.required /\ value = <<>>
      [] rule = "minlength" -> \E m \in field.minlength : Len(value) < m
      [] rule = "maxlength" -> \E m \in field.maxlength : Len(value) > m
      [] rule = "type" -> HasRule(field.validate) /\ ~validationRules(field.validate, value)
      [] rule = "custom" -> field.validator # "none" /\ ~CustomResult(field.validator, value).ok

RuleMessage(field, value, rule) ==
    CASE rule = "required" -> Msg("This field is required", 0)
      [] rule = "minlength" -> Msg("Minimum n characters required", SetMin(field.minlength))
      [] rule = "maxlength" -> Msg("Maximum n characters allowed", SetMin(field.maxlength))
      [] rule = "type" -> getErrorMessage(field.validate)
      [] rule = "custom" -> CustomResult(field.validator, value).msg

FailingRules(field, value) == {k \in 1..5 : RuleFails(field, value, RuleOrder[k])}

\* The earliest failing rule decides: its message is the one displayed, and the
\* custom validator ran only if every rule before it passed.
EarliestRuleWins ==
    LET failing == FailingRules(Validated_field, Validated_value)
        first == RuleOrder[SetMin(failing)]
    IN /\ ~lastValidate.ok
       /\ ShownTexts(form, lastValidate.field)
             = {RuleMessage(Validated_field, Validated_value, first)}
       /\ lastValidate.custom => first = "custom"

\* C8 (as stated): for every combination of rules that would fail, the message
\* displayed is that of the earliest failing rule in the order required,
\* minimum length, maximum length, type pattern, custom validator, and no
\* later rule is evaluated.
C8_FirstFailingRuleWins ==
    (/\ lastValidate.field # 0
     /\ FailingRules(Validated_field, Validated_value) # {})
    => EarliestRuleWins

\* C8 (amended): the same for every field that is required or whose trimmed
\* value is not empty; a field that is not required and whose trimmed value is
\* empty is accepted with no message and without evaluating any rule.
C8_FirstFailingRuleWinsUnlessEmptyOptional ==
    lastValidate.field # 0 =>
        IF Validated_value = <<>> /\ ~Validated_field.required
        THEN /\ lastValidate.ok
             /\ ~lastValidate.custom
             /\ ShownTexts(form, lastValidate.field) = {}
        ELSE FailingRules(Validated_field, Validated_value) # {} => EarliestRuleWins

C8_Witness ==
    /\ lastValidate.field # 0
    /\ Validated_field.value = <<"1", "@", "1">>
    /\ FailingRules(Validated_field, Validated_value) = {2, 3, 4, 5}
    /\ ~lastValidate.custom
    /\ ShownTexts(form, lastValidate.field) = {Msg("Minimum n characters required", 4)}

LengthWithinBounds(field, value) ==
    /\ \A m \in field.minlength : Len(value) >= m
    /\ \A m \in field.maxlength : Len(value) <= m

MarkedValid ==
    /\ lastValidate.ok
    /\ Validated_field.classes = {"success"}
    /\ Validated_field.ariaInvalid = "false"
    /\ ShownTexts(form, lastValidate.field) = {}

\* C9 (as stated): a field whose value matches its declared type pattern and
\* whose length is within its minlength/maxlength bounds is marked valid by
\* validateField and has no visible error message afterwards.
C9_MatchingFieldIsValid ==
    (/\ lastValidate.field # 0
     /\ HasRule(Validated_field.validate)
     /\ validationRules(Validated_field.validate, Validated_value)
     /\ LengthWithinBounds(Validated_field, Validated_value))
    => MarkedValid

\* C9 (amended): the same, for a field that has no custom validator function or
\* whose custom validator returns true for the trimmed value.
C9_MatchingFieldIsValidUnlessCustomRejects ==
    (/\ lastValidate.field # 0
     /\ HasRule(Validated_field.validate)
     /\ validationRules(Validated_field.validate, Validated_value)
     /\ LengthWithinBounds(Validated_field, Validated_value)
     /\ Validated_field.validator # "none"
           => CustomResult(Validated_field.validator, Validated_value).ok)
    => MarkedValid

C9_Witness ==
    /\ lastValidate.field # 0
    /\ Validated_field.validate = "email"
    /\ Validated_field.value = <<" ", "1", "@", "1", ".", "1">>
    /\ Validated_field.minlength = {4}
    /\ Validated_field.validator = "accept"
    /\ MarkedValid

\* ------------------------------------------------------------------------
\* FormValidator properties: the form
\* ------------------------------------------------------------------------

\* The error elements displayed for field i.
VisibleErrors(fm, i) ==
    {k \in 1..Len(fm.errEls) : fm.errEls[k].key = fm.fields[i].key /\ fm.errEls[k].visible}

\* C10: every field of a validated form has at most one visible error message,
\* after any sequence of blur events, debounced input events and submits.
C10_AtMostOneVisibleError ==
    \A i \in FieldIds : Cardinality(VisibleErrors(form, i)) <= 1

C10_Witness ==
    /\ Len(form.fields) = 2
    /\ form.fields[1].key = form.fields[2].key
    /\ "error" \in form.fields[1].classes
    /\ "error" \in form.fields[2].classes
    /\ lastValidate.field = 2
    /\ ~lastValidate.ok
    /\ Cardinality(VisibleErrors(form, 2)) = 1

\* ------------------------------------------------------------------------
\* FormValidator properties: submission
\* ------------------------------------------------------------------------

\* A field with this value is invalid: it is required and empty once trimmed,
\* or its trimmed value is not empty and breaks one of its rules.
FieldInvalid(field, value) ==
    IF trim(value) = <<>> THEN field.required
    ELSE FailingRules(field, trim(value)) # {}

\* The fields that were invalid when the latest submit event arrived.
InvalidAtSubmit ==
    {i \in FieldIds : FieldInvalid(form.fields[i], lastSubmit.values[i])}

\* C11: after a submit event that found some field invalid, no request has
\* been added, the button's disabled flag, the field values are as they were
\* before the event, and validateField has run on every field: each has its
\* own result, and each invalid one is marked and shows a message.
C11_InvalidSubmitAborts ==
    (lastSubmit.kind = "submit" /\ InvalidAtSubmit # {}) =>
        /\ form.requests = lastSubmit.requests
        /\ form.disabled = lastSubmit.disabled
        /\ formData(form) = lastSubmit.values
        /\ Len(lastSubmit.results) = Len(form.fields)
        /\ \A i \in FieldIds :
              /\ lastSubmit.results[i] = (i \notin InvalidAtSubmit)
              /\ i \in InvalidAtSubmit =>
                    /\ "error" \in form.fields[i].classes
                    /\ Cardinality(ShownTexts(form, i)) = 1

C11_Witness ==
    /\ lastSubmit.kind = "submit"
    /\ Len(form.fields) = 2
    /\ InvalidAtSubmit = {1, 2}
    /\ lastSubmit.results = <<FALSE, FALSE>>
    /\ form.fields[1].value = <<"@">>
    /\ form.requests = <<>>
    /\ ~form.disabled

\* C12: after a submit event that found some field invalid, the focus is on
\* the first invalid field.
C12_FocusOnFirstInvalid ==
    (lastSubmit.kind = "submit" /\ InvalidAtSubmit # {}) =>
        form.focus = SetMin(InvalidAtSubmit)

\* The request that the latest submit event added.
NewRequest == form.requests[Len(form.requests)]

\* C13: after a submit event that found every field valid, one request has
\* been added; it goes over the network to the form's action endpoint, its
\* body is the JSON text of the field map, and the button was disabled before
\* it was made.
C13_ValidSubmitSendsOneRequest ==
    (lastSubmit.kind = "submit" /\ InvalidAtSubmit = {}) =>
        /\ Len(form.requests) = Len(lastSubmit.requests) + 1
        /\ SubSeq(form.requests, 1, Len(lastSubmit.requests)) = lastSubmit.requests
        /\ NewRequest.disabled
        /\ NewRequest.network
        /\ NewRequest.endpoint = formAction(form)
        /\ NewRequest.body = JSONstringify(lastSubmit.values)

\* C14: while a request of the form is in flight, the submit button is
\* disabled.
C14_DisabledWhileInFlight ==
    (form.submitButton /\ form.requests # <<>>) => form.disabled

\* C15: after a request that was rejected or answered with a response that is
\* not ok, no error has left submitForm, an error status element is the
\* form's first child, the field values are as they were and the submit
\* button is enabled.
C15_FailureIsCaught ==
    (lastSubmit.kind = "completed" /\ lastSubmit.outcome \in {"rejected", "notOk"}) =>
        /\ ~form.uncaught
        /\ form.statusEls # <<>>
        /\ form.statusEls[1].kind = "error"
        /\ form.statusEls[1].age = 0
        /\ formData(form) = lastSubmit.values
        /\ form.submitButton => ~form.disabled

C15_Witness ==
    /\ lastSubmit.kind = "completed"
    /\ lastSubmit.outcome = "notOk"
    /\ lastSubmit.disabled
    /\ form.fields[1].value = <<"1", "@", "1", ".", "1">>
    /\ form.statusEls # <<>>
    /\ form.statusEls[1].kind = "error"
    /\ ~form.disabled

\* C16: every status element of the form has the timeout that removes it
\* pending, due StatusTicks (5000 ms) after the element was inserted, and none
\* is older than that: once the delay has passed since the latest completed
\* request, no status element is left.
C16_StatusIsTransient ==
    \A k \in 1..Len(form.statusEls) :
        /\ form.statusEls[k].timer
        /\ form.statusEls[k].age <= StatusTicks
        /\ form.statusEls[k].remaining = StatusTicks - form.statusEls[k].age

C16_Witness ==
    /\ form.variant = 2
    /\ form.statusEls # <<>>
    /\ form.statusEls[1].kind = "error"
    /\ form.statusEls[1].age = StatusTicks
    /\ form.requests = <<>>

\* The one-field form of the scenario and the value submitted.
EmailFormSubmitted ==
    /\ lastSubmit.kind = "submit"
    /\ Len(form.fields) = 1
    /\ form.fields[1].required
    /\ form.fields[1].validate = "email"

EmailMessageAndNoRequest ==
    /\ ShownTexts(form, 1) = {Msg("Please enter a valid email address", 0)}
    /\ form.requests = lastSubmit.requests

NoErrorAndRequest ==
    /\ ShownTexts(form, 1) = {}
    /\ "error" \notin form.fields[1].classes
    /\ Len(form.requests) = Len(lastSubmit.requests) + 1
    /\ NewRequest.body.data = lastSubmit.values

LazyIds == DOMAIN lazyLoader.elements

\* C18: no target makes its transition twice: an animated element gets at most
\* one class addition (pending or done), a counter at most one animation, a
\* lazy element at most one source swap and one pair of load/error listeners.
C18_AtMostOneTransition ==
    /\ \A e \in scrollAnimations.animatedElements :
          scrollAnimations.timeouts[e] + scrollAnimations.additions[e] <= 1
    /\ \A e \in statisticsCounter.counters : statisticsCounter.started[e] <= 1
    /\ \A e \in LazyIds :
          /\ lazyLoader.elements[e].swaps <= 1
          /\ lazyLoader.elements[e].listeners <= 1

\* C19 (as stated): in each of the three controllers no target whose
\* intersecting entry has been handled is still observed.
C19_FiredIsUnobserved ==
    /\ scrollAnimations.fired \cap scrollAnimations.observed = {}
    /\ statisticsCounter.fired \cap statisticsCounter.observed = {}
    /\ lazyLoader.fired \cap lazyLoader.observed = {}

\* C19 (amended): ScrollAnimations and LazyLoader observe exactly the targets
\* whose intersecting entry has not been handled yet; StatisticsCounter never
\* unobserves: all of its counters stay observed, and the targets that have
\* fired are the ones in its `animated` set.
C19_FiredIsUnobservedOrRemembered ==
    /\ scrollAnimations.observer =>
          scrollAnimations.observed
             = scrollAnimations.animatedElements \ scrollAnimations.fired
    /\ lazyLoader.observer => lazyLoader.observed = LazyIds \ lazyLoader.fired
    /\ statisticsCounter.observer =>
          /\ statisticsCounter.observed = statisticsCounter.counters
          /\ statisticsCounter.animated = statisticsCounter.fired

C19_Witness ==
    /\ statisticsCounter.observer
    /\ statisticsCounter.fired = {1}
    /\ statisticsCounter.observed = {1, 2}
    /\ statisticsCounter.started[1] = 1

\* A browser without IntersectionObserver: no controller has an observer.
\* (A StatisticsCounter without counters creates none either way.)
NoObserverApi ==
    /\ ~scrollAnimations.observer
    /\ ~lazyLoader.observer
    /\ statisticsCounter.counters # {} => ~statisticsCounter.observer
    /\ scrollAnimations.animatedElements \cup statisticsCounter.counters \cup LazyIds # {}

\* What a first intersection of target e, once its timeout has run, makes of
\* the element in a browser with IntersectionObserver.
ScrollFirstIntersection(e) ==
    ScrollAnimations_timeout(
        ScrollAnimations_handleIntersection(
            ScrollAnimations_init(scrollAnimations.animatedElements, TRUE),
            <<Entry(e, TRUE)>>), e)

StatsFirstIntersection(e) ==
    StatisticsCounter_callback(
        StatisticsCounter_init(statisticsCounter.counters, statisticsCounter.numeric, TRUE),
        <<Entry(e, TRUE)>>)

LazyFirstIntersection(e) ==
    LazyLoader_handleIntersection(LazyLoader_init(lazyLoader.markup, TRUE),
                                  <<Entry(e, TRUE)>>).elements[e]

\* The counters and the lazy elements are as their first intersection would
\* make them, and nothing is observed or pending.
FallbackLoadsLikeIntersection ==
    /\ scrollAnimations.observed = {} /\ lazyLoader.observed = {}
    /\ statisticsCounter.observed = {}
    /\ \A e \in scrollAnimations.animatedElements : scrollAnimations.timeouts[e] = 0
    /\ \A e \in statisticsCounter.counters :
          statisticsCounter.started[e] = StatsFirstIntersection(e).started[e]
    /\ \A e \in LazyIds :
          LET el == lazyLoader.elements[e]
              first == LazyFirstIntersection(e)
          IN /\ el.src = first.src /\ el.srcset = first.srcset
             /\ el.swaps = first.swaps /\ el.listeners = first.listeners
             /\ el.tagName = "IFRAME" => el.dataSrc = first.dataSrc

\* C20 (as stated): without IntersectionObserver no observer exists and every
\* element is in the state a first intersection would leave it in.
C20_FallbackEqualsFirstIntersection ==
    NoObserverApi =>
        /\ FallbackLoadsLikeIntersection
        /\ \A e \in scrollAnimations.animatedElements :
              scrollAnimations.classes[e] = ScrollFirstIntersection(e).classes[e]

\* C20 (amended): the same, except that an animated element gets the class
\* 'animated' only, not the 'animate-<type>' class a first intersection adds.
C20_FallbackShowsEverything ==
    NoObserverApi =>
        /\ FallbackLoadsLikeIntersection
        /\ \A e \in scrollAnimations.animatedElements :
              /\ scrollAnimations.classes[e] = {"animated"}
              /\ scrollAnimations.classes[e] \subseteq ScrollFirstIntersection(e).classes[e]

C20_Witness ==
    /\ NoObserverApi
    /\ LazyIds = {1, 2}
    /\ lazyLoader.elements[1].tagName = "IMG" /\ lazyLoader.elements[1].src
    /\ lazyLoader.elements[1].classes = {"loaded"}
    /\ lazyLoader.elements[2].tagName = "IFRAME" /\ lazyLoader.elements[2].src

\* ------------------------------------------------------------------------
\* App properties
\* ------------------------------------------------------------------------

\* C21: after any number of init() calls the registry holds each controller
\* exactly once: no two components of the registry are controllers of one
\* class made for one element.
C21_InitIdempotent ==
    \A i, j \in 1..Len(app.components) :
        (/\ app.components[i].class = app.components[j].class
         /\ app.components[i].el = app.components[j].el) => i = j

\* The number of destroy() calls that the latest App.destroy() made on a controller.
DestroyCallsOn(id) ==
    Cardinality({k \in 1..Len(app.destroyCalls) : app.destroyCalls[k] = id})

\* C22: App.destroy() calls destroy() exactly once on every collected
\* controller that defines one, calls nothing on the others, and leaves the
\* registry empty.
C22_DestroyCallsEachOnce ==
    app.lastOp = "destroy" =>
        /\ app.components = <<>>
        /\ \A k \in 1..Len(app.before) :
              DestroyCallsOn(app.before[k].id) =
                  (IF app.before[k].class = "Carousel" THEN 1 ELSE 0)
        /\ Len(app.destroyCalls) =
              Cardinality({k \in 1..Len(app.before) : app.before[k].class = "Carousel"})

C22_Witness ==
    /\ app.lastOp = "destroy"
    /\ Len(app.destroyCalls) = 1
    /\ Len(app.before) > 1
    /\ app.components = <<>>

\* C23: once Carousel.destroy() has run, no autoplay timer of the carousel is
\* pending and its autoplay never calls next() again, whatever events reach
\* the carousel afterwards.
C23_NoAutoplayAfterDestroy ==
    destroyed => (carousel.intervals = {} /\ lastCall.op # "autoPlayTick")

\* C24: when one constructor throws during init(), every other controller of
\* the run, the later ones included, is in the registry.
C24_ThrowLeavesOthers ==
    (app.lastOp = "init" /\ app.thrown # 0) =>
        \A k \in 1..Len(Plan(app)) :
            k # app.thrown =>
                \E i \in 1..Len(app.components) :
                    /\ app.components[i].class = Plan(app)[k].class
                    /\ app.components[i].el = Plan(app)[k].el

\* ------------------------------------------------------------------------
\* MobileNavigation, ModalHandler and Accordion properties
\* ------------------------------------------------------------------------

\* The marks of the menu's elements: the 'active' classes and aria-expanded.
Marks(n) ==
    [menu |-> n.menuActive, toggle |-> n.toggleActive, overlay |-> n.overlayActive,
     aria |-> n.ariaExpanded]

\* C25: isOpen is true exactly when the menu, the toggle button and the
\* overlay (if present) carry 'active' and aria-expanded is 'true'; when it is
\* false none of them carries 'active' and aria-expanded is not 'true';
\* close() after open() restores the marks that held before open(), and two
\* toggle() calls bring isOpen and the marks back to where they were.
C25_MenuStateCoherent ==
    /\ navigation.isOpen =>
          Marks(navigation) = [menu |-> TRUE, toggle |-> TRUE,
                               overlay |-> navigation.menuOverlay, aria |-> "true"]
    /\ ~navigation.isOpen =>
          Marks(navigation) = [menu |-> FALSE, toggle |-> FALSE, overlay |-> FALSE,
                               aria |-> IF navigation.listening THEN "false" ELSE "none"]
    /\ (navigation.listening /\ ~navigation.isOpen) =>
          Marks(MobileNavigation_close(MobileNavigation_open(navigation, page).ctl,
                                       page).ctl) = Marks(navigation)
    /\ navigation.listening =>
          /\ Marks(MobileNavigation_toggle(MobileNavigation_toggle(navigation, page).ctl,
                                           page).ctl) = Marks(navigation)
          /\ MobileNavigation_toggle(MobileNavigation_toggle(navigation, page).ctl,
                                     page).ctl.isOpen = navigation.isOpen

C25_Witness ==
    /\ navigation.isOpen
    /\ navigation.menuOverlay /\ navigation.overlayActive
    /\ navigation.ariaExpanded = "true"
    /\ page.focus = MenuLink

\* C26: a focus timeout moves the focus into the menu only while the menu is
\* open, and into a modal only while that modal is the active one.
C26_FocusOnlyWhileOpen ==
    /\ page.moved = MenuLink => navigation.isOpen
    /\ \A m \in modal.modals : page.moved = ModalElement(m) => modal.activeModal = m

\* C27: in an accordion without data-allow-multiple at most one item is
\* active; a click on a closed item leaves that item the only active one, and
\* a click on the open item leaves none active.
C27_SingleOpen ==
    ~accordion.allowMultiple =>
        /\ Cardinality(accordion.active) <= 1
        /\ accordion.lastClick.item # 0 =>
              accordion.active = (IF accordion.lastClick.wasOpen
                                  THEN {} ELSE {accordion.lastClick.item})

\* C28: a carousel without a track or without slides has logged the warning
\* and nothing else: no dots, no listeners, no interval, and the marks of the
\* markup as they were.
C28_InertWithoutStructure ==
    (~carousel.track \/ carousel.slides = 0) =>
        /\ carousel.warned
        /\ ~carousel.dots
        /\ ~carousel.listening
        /\ carousel.intervals = {} /\ carousel.autoPlayInterval = 0
        /\ carousel.transform = 0 /\ carousel.slideActive = {} /\ carousel.dotActive = {}

C28_Witness ==
    /\ ~carousel.track
    /\ carousel.slides = 2
    /\ carousel.isAutoPlay
    /\ carousel.dotsContainer
    /\ carousel.warned

\* ------------------------------------------------------------------------
\* debounce and throttle properties
\* ------------------------------------------------------------------------

\* C29: the wrapped function runs only when the wait has passed since the
\* latest call, with the arguments of that call, and once for the burst: while
\* a call waits exactly one timeout is pending, due one wait after the latest
\* call, and after the run none is.
C29_DebounceRunsOnceAfterQuiet ==
    /\ debounced.ran.runs # 0 =>
          /\ debounced.ran.args = debounced.lastArgs
          /\ debounced.ran.after = debounced.wait
          /\ debounced.ran.runs = 1
    /\ debounced.waiting =>
          debounced.timers = {[id |-> debounced.timeout, args |-> debounced.lastArgs,
                               remaining |-> debounced.wait - debounced.sinceCall]}
    /\ ~debounced.waiting => debounced.timers = {}

C29_Witness ==
    /\ debounced.ran.runs = 1
    /\ debounced.ran.calls = 2
    /\ debounced.ran.args = "b"
    /\ debounced.ran.after = debounced.wait

\* C30: the first call runs the wrapped function; a call less than the limit
\* after a run is dropped and leaves nothing to run later; a call that runs
\* the function comes at least one limit after the run before it.
C30_ThrottleOncePerWindow ==
    /\ throttled.call.made =>
          /\ ~throttled.call.before => throttled.call.ran
          /\ (throttled.call.before /\ throttled.call.gap < throttled.limit)
                => ~throttled.call.ran
          /\ (throttled.call.before /\ throttled.call.ran)
                => throttled.call.gap >= throttled.limit
    /\ Cardinality(throttled.timers) <= 1
    /\ throttled.inThrottle <=> throttled.timers # {}

C30_Witness ==
    /\ throttled.call.made
    /\ throttled.call.before
    /\ ~throttled.call.ran
    /\ throttled.call.gap = 1

\* ------------------------------------------------------------------------
\* FormValidator properties: the field listeners
\* ------------------------------------------------------------------------

\* C31: a field is validated whenever the user moves the focus out of it; the
\* debounced input listener of a field that is not marked invalid leaves the
\* form as it is, and that of a field marked invalid runs validateField on
\* the field.
C31_InputRevalidatesOnlyInvalid ==
    [][/\ (form.focus # 0 /\ form'.focus # form.focus /\ lastSubmit'.kind = "none")
           => /\ lastValidate'.field = form.focus
              /\ lastValidate'.ok = validateField(form, form.focus).ok
              /\ [form' EXCEPT !.focus = form.focus] = validateField(form, form.focus).form
       /\ \A i \in inputTimer \ inputTimer' :
             IF "error" \in form.fields[i].classes
             THEN /\ lastValidate'.field = i
                  /\ lastValidate'.ok = validateField(form, i).ok
                  /\ form' = validateField(form, i).form
             ELSE /\ form' = form
                  /\ lastValidate'.field = 0]_vars

\* The input listener just validated the focused field, which was marked
\* invalid and is valid now.
C31_Witness ==
    /\ lastValidate.field # 0
    /\ form.focus = lastValidate.field
    /\ lastSubmit.kind = "none"
    /\ lastValidate.ok
    /\ Validated_field.classes = {"success"}
    /\ inputTimer = {}

\* C32 (as stated): whenever validateField returns true, the field carries no
\* 'error' class, no aria-invalid='true' and no visible error message.
C32_ValidFieldIsUnmarked ==
    (lastValidate.field # 0 /\ lastValidate.ok)
    => /\ "error" \notin Validated_field.classes
       /\ Validated_field.ariaInvalid # "true"
       /\ ShownTexts(form, lastValidate.field) = {}

\* The messages that the rules of a field can produce.
OwnMessages(field) ==
    {RuleMessage(field, v, RuleOrder[k]) :
        <<v, k>> \in {vk \in form.values \X (1..5) : vk[2] \in FailingRules(field, vk[1])}}

\* C36 (as stated): every field that carries the 'error' class has a visible
\* error message, and the message is one of that field's own rules, also when
\* fields share one parent element or one error-element id.
C36_ErrorFieldShowsOwnMessage ==
    \A i \in FieldIds :
        "error" \in form.fields[i].classes
        => \E k \in VisibleErrors(form, i) : form.errEls[k].text \in OwnMessages(form.fields[i])

\* ------------------------------------------------------------------------
\* FormValidator properties: the response
\* ------------------------------------------------------------------------

\* C40 (as stated): after a response with ok status, whatever its body is,
\* the form shows the success status element and is reset; after a response
\* that is not ok it shows the error status element.
C40_OutcomeFollowsOk ==
    (lastSubmit.kind = "completed" /\ form.variant = 2) =>
        /\ lastSubmit.outcome \in {"ok", "okNoJson"}
              => /\ form.statusEls # <<>>
                 /\ form.statusEls[1].kind = "success"
                 /\ \A i \in FieldIds : form.fields[i].value = <<>>
        /\ lastSubmit.outcome = "notOk"
              => /\ form.statusEls # <<>>
                 /\ form.statusEls[1].kind = "error"

\* ------------------------------------------------------------------------
\* Carousel properties: the autoplay interval
\* ------------------------------------------------------------------------

\* C35: a carousel has at most one pending autoplay interval, the one whose
\* handle is autoPlayInterval, and none while isPaused is true.
C35_AtMostOneInterval ==
    /\ Cardinality(carousel.intervals) <= 1
    /\ \A t \in carousel.intervals : t.id = carousel.autoPlayInterval
    /\ carousel.isPaused => carousel.intervals = {}

\* The pointer is over an autoplaying carousel, which is paused: the interval
\* started by init is cleared.
C35_Witness ==
    /\ carousel.isAutoPlay
    /\ carousel.isPaused
    /\ hovering
    /\ carousel.autoPlayInterval # 0
    /\ carousel.intervals = {}

\* ------------------------------------------------------------------------
\* ModalHandler and MobileNavigation properties: open modals and the body
\* ------------------------------------------------------------------------

\* C33 (as stated): a modal carries the class 'active' exactly when it is
\* activeModal, so at most one modal is active and none after close().
C33_OnlyActiveModalIsActive ==
    \A m \in modal.modals : m \in modal.active <=> m = modal.activeModal

\* C34 (as stated): while the mobile menu is open or a modal is active, the
\* overflow of document.body is 'hidden'.
C34_BodyTrappedWhileOpen ==
    (navigation.isOpen \/ modal.active # {}) => page.overflow = "hidden"

\* ------------------------------------------------------------------------
\* Accordion properties: items without a trigger or a content
\* ------------------------------------------------------------------------

\* C37 (as stated): in a single-open accordion that contains an item without
\* its trigger or its content, a click on the trigger of a complete item
\* throws nothing and opens the item if it was closed, closes it if it was
\* open.
C37_MalformedItemIsInert ==
    (/\ accordion.lastClick.item # 0
     /\ ~accordion.allowMultiple
     /\ \E j \in 1..Len(accordion.items) : accordion.items[j] # "complete")
    => /\ ~accordion.lastClick.threw
       /\ accordion.lastClick.item \in accordion.active <=> ~accordion.lastClick.wasOpen

\* ------------------------------------------------------------------------
\* StatisticsCounter properties: the counter animation
\* ------------------------------------------------------------------------

\* The animation is over: the interval is cleared and the element shows its
\* prefix, the target and its suffix.
CounterFinished ==
    /\ ~counter.timer
    /\ counter.text = CounterText(counter, counter.target)

\* C38 (as stated): for every integer target and duration, an animation that
\* was started ends with the interval cleared and the target displayed, and
\* no number displayed on the way exceeds the target.
C38_CounterAnimationEnds ==
    /\ [](counter.text.shown => counter.text.number <= counter.target)
    /\ counter.started ~> CounterFinished

\* ------------------------------------------------------------------------
\* HeaderScroll and BackToTop properties
\* ------------------------------------------------------------------------

\* C39 (as stated): when no throttle window is open, the header carries
\* 'scrolled' exactly when the scroll offset is greater than 100 and the
\* back-to-top button carries 'visible' exactly when it is greater than 300.
C39_ClassesFollowFinalOffset ==
    (~scroller.headerThrottle.inThrottle /\ ~scroller.buttonThrottle.inThrottle)
    => /\ scroller.header
             => ("scrolled" \in scroller.headerClasses
                    <=> scroller.pageYOffset > ScrollThreshold)
       /\ scroller.button
             => ("visible" \in scroller.buttonClasses
                    <=> scroller.pageYOffset > ShowThreshold)

====
